---- MODULE Spec2Model ----
(***************************************************************************)
(* Verification model of the CodeIQ2 dependency analyser: the graph engine *)
(* (core/topo.py), the documentation abstraction rules                     *)
(* (core/doc_dependency_parser.py), the Python resolver                    *)
(* (languages/python/dependencies.py) and the repository pipeline          *)
(* (backend/core/repository_parser.py).                                    *)
(*                                                                         *)
(* A component id "module.Class.method" is modelled as the sequence of its *)
(* dot-separated segments, <<"module", "Class", "method">>: split(".") and *)
(* ".".join are then the identity on the representation, startswith(p+".") *)
(* is "p is a proper prefix", and rsplit(".", 1)[0] drops the last segment. *)
(*                                                                         *)
(* A Python dict is a record [keys, ...] whose keys field is the sequence  *)
(* of its keys in insertion order.  The iteration order of a Python set of *)
(* strings is not fixed by the language (it follows the randomised string  *)
(* hash): every loop over a set takes a parameter so, which maps each set  *)
(* of two or more elements to the sequence in which this run iterates it.  *)
(***************************************************************************)
EXTENDS Integers, Sequences, FiniteSets, TLC

VARIABLES
    pc,          \* position of the run
    files,       \* the files of the repository, in the order os.walk yields them
    parsed_files, \* per parsed file: its tree and the keys of its components
    cursor,      \* index of the next file (pass 1) or component (pass 2)
    error,       \* the exception that ended the run, "" while none was raised
    calls,       \* the resolve_dependencies calls of pass 2 when they run in any
                 \* order: per component, the set returned and whether
                 \* depends_on was updated with it
    heap,        \* the CodeComponent objects: <<file number, id>> -> fields
    all_components, \* the global table: its keys and, per key, the file of its object
    rules_input, \* history: the heap that apply_doc_dependency_rules was called on
    graph,       \* the adjacency mapping handed to the graph engine
    cycles,      \* result of detect_cycles(graph)
    resolved,    \* result of resolve_cycles(graph)
    topo_order,  \* result of topological_sort(graph)
    dfs_order,   \* result of dependency_first_dfs(graph)
    emitted,     \* history: how many nodes the Kahn phase of topological_sort emitted
    exported,    \* the dictionary CodeComponent.to_dict returned, <<>> before the call
    loaded       \* the object CodeComponent.from_dict built, <<>> before the call

graphVars == <<graph, cycles, resolved, topo_order, dfs_order, emitted>>

parseVars == <<files, parsed_files, cursor, error>>

irVars == <<exported, loaded>>

tableVars == <<parseVars, irVars, calls, heap, all_components, rules_input>>

vars == <<pc, parseVars, irVars, calls, heap, all_components, rules_input, graph, cycles,
          resolved, topo_order, dfs_order, emitted>>

----------------------------------------------------------------------------
(* Bounds *)

MaxNodes == 3
MaxEdges == 3
MaxDeps == 2

----------------------------------------------------------------------------
(* Strings and ids *)

\* Every identifier of the model, in Python's str order (code point order:
\* upper case < "_" < lower case).
NameOrder ==
    <<"A", "B", "Bar", "Foo", "G", "K", "L", "M",
      "Main", "README", "Tool", "__init__",
      "_h", "a", "app", "b", "bar", "baz", "c", "d", "deep", "e", "extra", "f", "g",
      "helper", "locked", "m", "main", "run", "use", "use_foo", "util", "x">>

NameRank ==
    [name \in {NameOrder[i] : i \in 1..Len(NameOrder)} |->
        CHOOSE i \in 1..Len(NameOrder) : NameOrder[i] = name]

Min(a, b) == IF a <= b THEN a ELSE b

\* a < b for two ids, as Python compares the dotted strings: "." sorts below
\* every identifier character, so the comparison is segment by segment and a
\* proper prefix comes first.
RECURSIVE IdLess(_, _)
IdLess(a, b) ==
    IF a = <<>> THEN b # <<>>
    ELSE IF b = <<>> THEN FALSE
    ELSE IF Head(a) = Head(b) THEN IdLess(Tail(a), Tail(b))
    ELSE NameRank[Head(a)] < NameRank[Head(b)]

\* sorted(S)
RECURSIVE sorted(_)
sorted(S) ==
    IF S = {} THEN <<>>
    ELSE LET m == CHOOSE x \in S : \A y \in S : x = y \/ IdLess(x, y)
         IN <<m>> \o sorted(S \ {m})

Range(s) == {s[i] : i \in 1..Len(s)}

\* All sequences that list the elements of S once each.
RECURSIVE Perms(_)
Perms(S) ==
    IF S = {} THEN {<<>>}
    ELSE UNION {{<<x>> \o p : p \in Perms(S \ {x})} : x \in S}

\* The elements of the set S in the order this run iterates the set.
Iter(S, so) ==
    IF S = {} THEN <<>>
    ELSE IF Cardinality(S) = 1 THEN <<CHOOSE x \in S : TRUE>>
    ELSE so[S]

\* Every assignment of an iteration order to each set of D.
RECURSIVE OrdersOver(_)
OrdersOver(D) ==
    IF D = {} THEN {<<>>}
    ELSE LET S == CHOOSE S \in D : TRUE
         IN {(S :> p) @@ f : p \in Perms(S), f \in OrdersOver(D \ {S})}

IndexOf(s, x) == CHOOSE i \in 1..Len(s) : s[i] = x

Reverse(s) == [i \in 1..Len(s) |-> s[Len(s) + 1 - i]]

----------------------------------------------------------------------------
(* Graph engine: core/topo.py *)

KeySet(g) == Range(g.keys)

\* graph.get(node, set())
GraphGet(g, node) == IF node \in KeySet(g) THEN g.deps[node] ELSE {}

Edges(g) == {e \in KeySet(g) \X UNION {g.deps[k] : k \in KeySet(g)} : e[2] \in g.deps[e[1]]}

\* PopScc without "if w == node: break": the whole stack is popped.
PopSccWholeStack(stack, node) ==
    [scc |-> Reverse(stack), stack |-> <<>>]

\* The loop "while True: w = stack.pop() ..." of strongconnect: the popped
\* nodes in pop order, and the stack that is left.
PopScc(stack, node) ==
    LET i == IndexOf(stack, node)
    IN [scc |-> Reverse(SubSeq(stack, i, Len(stack))),
        stack |-> SubSeq(stack, 1, i - 1)]

RECURSIVE strongconnect(_, _, _, _)
RECURSIVE visit_successors(_, _, _, _, _)

\* The loop "for successor in graph.get(node, set())" of strongconnect.
visit_successors(g, so, st, node, succs) ==
    IF succs = <<>> THEN st
    ELSE LET successor == Head(succs)
             st1 == IF successor \notin DOMAIN st.indices
                    THEN LET r == strongconnect(g, so, st, successor)
                         IN [r EXCEPT !.lowlinks[node] = Min(@, r.lowlinks[successor])]
                    ELSE IF successor \in st.on_stack
                    THEN [st EXCEPT !.lowlinks[node] = Min(@, st.indices[successor])]
                    ELSE st
         IN visit_successors(g, so, st1, node, Tail(succs))

strongconnect(g, so, st, node) ==
    LET st1 == [index_counter |-> st.index_counter + 1,
                stack |-> Append(st.stack, node),
                indices |-> (node :> st.index_counter) @@ st.indices,
                lowlinks |-> (node :> st.index_counter) @@ st.lowlinks,
                on_stack |-> st.on_stack \cup {node},
                cycles |-> st.cycles]
        st2 == visit_successors(g, so, st1, node, Iter(GraphGet(g, node), so))
    IN IF st2.lowlinks[node] = st2.indices[node]
       THEN LET p == PopScc(st2.stack, node)
            IN [st2 EXCEPT !.stack = p.stack,
                           !.on_stack = @ \ Range(p.scc),
                           !.cycles = IF Len(p.scc) > 1 THEN Append(@, p.scc) ELSE @]
       ELSE st2

\* The loop "for node in graph: if node not in indices: strongconnect(node)".
RECURSIVE tarjan_roots(_, _, _, _)
tarjan_roots(g, so, st, nodes) ==
    IF nodes = <<>> THEN st
    ELSE tarjan_roots(g, so,
                      IF Head(nodes) \notin DOMAIN st.indices
                      THEN strongconnect(g, so, st, Head(nodes)) ELSE st,
                      Tail(nodes))

detect_cycles(g, so) ==
    tarjan_roots(g, so,
                 [index_counter |-> 0, stack |-> <<>>, indices |-> <<>>,
                  lowlinks |-> <<>>, on_stack |-> {}, cycles |-> <<>>],
                 g.keys).cycles

\* BreakCycle with the membership test inverted ("if dep not in cycle_set").
BreakCycleInverted(g, cycle) ==
    [g EXCEPT !.deps = [n \in KeySet(g) |->
                          IF n \in Range(cycle) THEN g.deps[n] \cap Range(cycle)
                          ELSE g.deps[n]]]

\* BreakCycle that removes only the edges to the other members of the cycle.
BreakCycleKeepSelfLoops(g, cycle) ==
    [g EXCEPT !.deps = [n \in KeySet(g) |->
                          IF n \in Range(cycle) THEN g.deps[n] \ (Range(cycle) \ {n})
                          ELSE g.deps[n]]]

\* new_graph after "for node in cycle: ... new_graph[node].remove(dep)".
BreakCycle(g, cycle) ==
    [g EXCEPT !.deps = [n \in KeySet(g) |->
                          IF n \in Range(cycle) THEN g.deps[n] \ Range(cycle)
                          ELSE g.deps[n]]]

RECURSIVE BreakCycles(_, _)
BreakCycles(g, cs) ==
    IF cs = <<>> THEN g ELSE BreakCycles(BreakCycle(g, Head(cs)), Tail(cs))

\* resolve_cycles that also drops every self-loop.
resolve_cycles_drop_self(g, so) ==
    LET r == BreakCycles(g, detect_cycles(g, so))
    IN [r EXCEPT !.deps = [n \in KeySet(g) |-> r.deps[n] \ {n}]]

resolve_cycles(g, so) ==
    LET cs == detect_cycles(g, so)
    IN IF cs = <<>> THEN g ELSE BreakCycles(g, cs)

\* resolve_cycles that removes the edges from the mapping it was given.
graph_after_resolve_cycles_in_place(g, so) == resolve_cycles(g, so)

\* The caller's mapping after resolve_cycles(graph) has run on it: the edges
\* are removed from new_graph, a new dict whose values are copies of the
\* dependency sets ("{n: deps.copy() for n, deps in graph.items()}"), so the
\* mapping passed in is as it was.  topological_sort and dependency_first_dfs
\* rebind their local name to the result and only read it afterwards.
graph_after_resolve_cycles(g, so) == g

\* "for child in dependents[node]: in_degree[child] -= 1; if ... queue.append".
RECURSIVE kahn_children(_, _)
kahn_children(st, children) ==
    IF children = <<>> THEN st
    ELSE LET child == Head(children)
             d == st.in_degree[child] - 1
         IN kahn_children([st EXCEPT !.in_degree[child] = d,
                                     !.queue = IF d = 0 THEN Append(@, child) ELSE @],
                          Tail(children))

\* "while queue: node = queue.popleft(); result.append(node); ...".
RECURSIVE kahn(_, _, _)
kahn(dependents, so, st) ==
    IF st.queue = <<>> THEN st
    ELSE LET node == Head(st.queue)
         IN kahn(dependents, so,
                 kahn_children([st EXCEPT !.queue = Tail(@),
                                          !.result = Append(@, node)],
                               Iter(dependents[node], so)))

\* kahn_result with the edge direction swapped (dependents emitted first).
kahn_result_reversed(g, so) ==
    LET gr == resolve_cycles(g, so)
        dependents == [n \in KeySet(gr) |-> gr.deps[n] \cap KeySet(gr)]
        in_degree == [n \in KeySet(gr) |-> Cardinality({d \in KeySet(gr) : n \in gr.deps[d]})]
        queue == SelectSeq(gr.keys, LAMBDA n : in_degree[n] = 0)
    IN kahn(dependents, so,
            [queue |-> queue, result |-> <<>>, in_degree |-> in_degree]).result

\* kahn_result without the test "if dep in graph": in_degree counts every
\* dependency, also one that is not a key.
kahn_result_counts_all_deps(g, so) ==
    LET gr == resolve_cycles(g, so)
        dependents == [n \in KeySet(gr) |-> {d \in KeySet(gr) : n \in gr.deps[d]}]
        in_degree == [n \in KeySet(gr) |-> Cardinality(gr.deps[n])]
        queue == SelectSeq(gr.keys, LAMBDA n : in_degree[n] = 0)
    IN kahn(dependents, so,
            [queue |-> queue, result |-> <<>>, in_degree |-> in_degree]).result

\* The result list of the Kahn phase of topological_sort, before the length test.
kahn_result(g, so) ==
    LET gr == resolve_cycles(g, so)
        dependents == [n \in KeySet(gr) |-> {d \in KeySet(gr) : n \in gr.deps[d]}]
        in_degree == [n \in KeySet(gr) |-> Cardinality(gr.deps[n] \cap KeySet(gr))]
        queue == SelectSeq(gr.keys, LAMBDA n : in_degree[n] = 0)
    IN kahn(dependents, so,
            [queue |-> queue, result |-> <<>>, in_degree |-> in_degree]).result

\* topological_sort without the fallback to the stored keys.
topological_sort_no_fallback(g, so) == kahn_result(g, so)

\* topological_sort whose fallback returns the keys sorted by id.
topological_sort_sorted_fallback(g, so) ==
    LET result == kahn_result(g, so)
    IN IF Len(result) # Len(g.keys) THEN sorted(KeySet(g)) ELSE result

\* topological_sort(graph)
topological_sort(g, so) ==
    LET result == kahn_result(g, so)
    IN IF Len(result) # Len(g.keys) THEN g.keys ELSE result

RECURSIVE dfs(_, _, _)
RECURSIVE dfs_deps(_, _, _)

\* "for dep in sorted(graph.get(node, set())): dfs(dep)".
dfs_deps(gr, st, deps) ==
    IF deps = <<>> THEN st ELSE dfs_deps(gr, dfs(gr, st, Head(deps)), Tail(deps))

\* dfs that emits the node before its dependencies (pre-order).
dfs_preorder(gr, st, node) ==
    IF node \in st.visited THEN st
    ELSE dfs_deps(gr, [st EXCEPT !.visited = @ \cup {node}, !.result = Append(@, node)],
                  sorted(GraphGet(gr, node)))

dfs(gr, st, node) ==
    IF node \in st.visited THEN st
    ELSE LET st1 == dfs_deps(gr, [st EXCEPT !.visited = @ \cup {node}],
                             sorted(GraphGet(gr, node)))
         IN [st1 EXCEPT !.result = Append(@, node)]

\* dependency_first_dfs that starts from the keys in stored order.
dependency_first_dfs_stored_order(g, so) ==
    LET gr == resolve_cycles(g, so)
    IN dfs_deps(gr, [visited |-> {}, result |-> <<>>], gr.keys).result

\* dependency_first_dfs(graph)
dependency_first_dfs(g, so) ==
    LET gr == resolve_cycles(g, so)
    IN dfs_deps(gr, [visited |-> {}, result |-> <<>>], sorted(KeySet(gr))).result

----------------------------------------------------------------------------
(* Component table: core/ir.py, and the dict all_components *)

\* The object that components[id] refers to.
RefOf(components, id) == <<components.file[id], id>>

InTable(components, id) == id \in Range(components.keys)

\* The objects of components.values().
TableRefs(components) == {RefOf(components, id) : id \in Range(components.keys)}

\* components[id].type, for an id of the table.
TypeOf(components, h, id) == h[RefOf(components, id)].type

\* s.startswith(p + ".")
StartsWithDot(s, p) == Len(s) > Len(p) /\ SubSeq(s, 1, Len(p)) = p

\* ".".join(parts[:-1])
Owner(id) == SubSeq(id, 1, Len(id) - 1)

\* name.startswith("_"), for the identifiers of the model.
StartsWithUnderscore(name) == name \in {"__init__", "_h"}

\* s.startswith(p + "._")
StartsWithDotUnderscore(s, p) == StartsWithDot(s, p) /\ StartsWithUnderscore(s[Len(p) + 1])

\* s.endswith(".__init__")
EndsWithInit(s) == Len(s) >= 2 /\ s[Len(s)] = "__init__"

----------------------------------------------------------------------------
(* Dependency abstraction: core/doc_dependency_parser.py *)

\* "dep_parts = dep.split("."); if len(dep_parts) >= 2: owner = ...; if owner
\* in components and components[owner].type == "class"".
IsMethodOfClass(components, h, dep) ==
    /\ Len(dep) >= 2
    /\ InTable(components, Owner(dep))
    /\ TypeOf(components, h, Owner(dep)) = "class"

IsGlobalVariable(components, h, dep) ==
    InTable(components, dep) /\ TypeOf(components, h, dep) = "global_variable"

\* class_dep without the "keep own methods" branch.
class_dep_no_own_methods(components, h, comp, dep) ==
    IF dep = comp.id THEN {}
    ELSE IF IsGlobalVariable(components, h, dep) THEN {dep}
    ELSE IF IsMethodOfClass(components, h, dep) THEN {Owner(dep)}
    ELSE {dep}

\* What one dependency of a class contributes to new_deps in pass 1.
class_dep(components, h, comp, dep) ==
    IF dep = comp.id THEN {}
    ELSE IF StartsWithDot(dep, comp.id) THEN {dep}
    ELSE IF IsGlobalVariable(components, h, dep) THEN {dep}
    ELSE IF IsMethodOfClass(components, h, dep) THEN {Owner(dep)}
    ELSE {dep}

\* self_class of pass 2: <<>> stands for None.
SelfClass(comp) ==
    IF comp.type = "method" /\ Len(comp.id) >= 2 THEN Owner(comp.id) ELSE <<>>

\* member_dep without the method-to-owner collapse.
member_dep_no_collapse(components, h, comp, dep) ==
    LET self_class == SelfClass(comp)
    IN IF self_class # <<>> /\ dep = self_class THEN {}
       ELSE IF self_class # <<>> /\ StartsWithDotUnderscore(dep, self_class) THEN {}
       ELSE {dep}

\* What one dependency of a method or function contributes to new_deps in pass 2.
member_dep(components, h, comp, dep) ==
    LET self_class == SelfClass(comp)
    IN IF self_class # <<>> /\ dep = self_class THEN {}
       ELSE IF self_class # <<>> /\ StartsWithDotUnderscore(dep, self_class) THEN {}
       ELSE IF IsGlobalVariable(components, h, dep) THEN {dep}
       ELSE IF InTable(components, dep) /\ TypeOf(components, h, dep) = "class" THEN {dep}
       ELSE IF IsMethodOfClass(components, h, dep) THEN {Owner(dep)}
       ELSE {dep}

\* Pass 1: the heap after "for comp in components.values(): if class ...".
clean_class_dependencies(components, h) ==
    [r \in DOMAIN h |->
        IF r \in TableRefs(components) /\ h[r].type = "class"
        THEN [h[r] EXCEPT !.depends_on =
                 UNION {class_dep(components, h, h[r], dep) : dep \in h[r].depends_on}]
        ELSE h[r]]

\* Pass 2: the heap after "for comp in components.values(): if method/function ...".
clean_member_dependencies(components, h) ==
    [r \in DOMAIN h |->
        IF r \in TableRefs(components) /\ h[r].type \in {"method", "function"}
        THEN [h[r] EXCEPT !.depends_on =
                 UNION {member_dep(components, h, h[r], dep) : dep \in h[r].depends_on}]
        ELSE h[r]]

\* Pass 3 computes the subset test and then executes "pass": the heap is unchanged.
orchestrator_collapse(components, h) == h

\* remove_self_references that removes nothing.
remove_self_references_skipped(components, h) == h

\* Pass 4: "for comp in components.values(): comp.depends_on.discard(comp.id)".
remove_self_references(components, h) ==
    [r \in DOMAIN h |->
        IF r \in TableRefs(components)
        THEN [h[r] EXCEPT !.depends_on = @ \ {h[r].id}]
        ELSE h[r]]

\* The heap after apply_doc_dependency_rules(components).
apply_doc_dependency_rules(components, h) ==
    remove_self_references(components,
        orchestrator_collapse(components,
            clean_member_dependencies(components,
                clean_class_dependencies(components, h))))

----------------------------------------------------------------------------
(* Syntax trees *)

\* A tree-sitter node: its type, its text as dot-separated segments (kept for
\* identifier and dotted_name nodes), the field it fills in its parent ("" for
\* none) and its children.  Anonymous tokens ("def", "(", ".", ":") are left
\* out: no branch of the extractor or of the resolver matches their types.
Node(type, text, field, children) ==
    [type |-> type, text |-> text, field |-> field, children |-> children]

NoNode == Node("", <<>>, "", <<>>)

\* node.child_by_field_name(f): the first child in that field, NoNode for None.
child_by_field_name(node, f) ==
    LET idx == {i \in 1..Len(node.children) : node.children[i].field = f}
    IN IF idx = {} THEN NoNode
       ELSE node.children[CHOOSE i \in idx : \A j \in idx : i <= j]

\* id.split(".")[-1]
LastName(id) == id[Len(id)]

----------------------------------------------------------------------------
(* Python resolver: languages/python/dependencies.py *)

\* The members of dir(builtins) and of STANDARD_MODULES that the model's
\* sources use.
BUILTIN_TYPES == {"print", "len"}

EXCLUDED_NAMES == {"self", "cls"}

STANDARD_MODULES == {"os", "sys"}

\* from_imports[module].append(name) unless present; a new module is added last.
AddFromImport(from_imports, module, names) ==
    LET known == {i \in 1..Len(from_imports) : from_imports[i].module = module}
        AddNew(old) ==
            old \o SelectSeq(names, LAMBDA n : n \notin Range(old))
    IN IF known = {}
       THEN Append(from_imports, [module |-> module, names |-> AddNew(<<>>)])
       ELSE [i \in 1..Len(from_imports) |->
                IF i \in known
                THEN [from_imports[i] EXCEPT !.names = AddNew(@)]
                ELSE from_imports[i]]

\* The texts of the children of node that have the given type, in order.
ChildTexts(node, type) ==
    LET cs == SelectSeq(node.children, LAMBDA c : c.type = type)
    IN [i \in 1..Len(cs) |-> cs[i].text]

\* What ImportTracker.collect records for one import_from_statement: the
\* module name is the text of the last dotted_name child.
collect_from_import(acc, node) ==
    LET dotted == ChildTexts(node, "dotted_name")
        has_wildcard == \E i \in 1..Len(node.children) :
                            node.children[i].type = "wildcard_import"
        module_name == IF dotted = <<>> THEN <<>> ELSE dotted[Len(dotted)]
        plain == SelectSeq(node.children,
                           LAMBDA c : \/ c.type = "dotted_name" /\ c.text # module_name
                                      \/ c.type = "aliased_import"
                                         /\ child_by_field_name(c, "name") # NoNode)
        names == [i \in 1..Len(plain) |->
                    IF plain[i].type = "dotted_name" THEN plain[i].text
                    ELSE child_by_field_name(plain[i], "name").text]
    IN IF module_name = <<>> THEN acc
       ELSE IF has_wildcard
       THEN [acc EXCEPT !.from_imports = AddFromImport(@, module_name, <<<<"*">>>>)]
       ELSE [acc EXCEPT !.from_imports = AddFromImport(@, module_name, names)]

\* What ImportTracker.collect records for one import_statement.
collect_import(acc, node) ==
    LET direct == Range(ChildTexts(node, "dotted_name"))
        aliased == {child_by_field_name(node.children[i], "name").text :
                      i \in {j \in 1..Len(node.children) :
                                /\ node.children[j].type = "aliased_import"
                                /\ child_by_field_name(node.children[j], "name") # NoNode}}
    IN [acc EXCEPT !.imports = @ \cup direct \cup aliased]

RECURSIVE collect_imports(_, _)
RECURSIVE collect_imports_children(_, _)

collect_imports_children(acc, children) ==
    IF children = <<>> THEN acc
    ELSE collect_imports_children(collect_imports(acc, Head(children)), Tail(children))

\* ImportTracker.collect: walk(node).
collect_imports(acc, node) ==
    collect_imports_children(
        IF node.type = "import_statement" THEN collect_import(acc, node)
        ELSE IF node.type = "import_from_statement" THEN collect_from_import(acc, node)
        ELSE acc,
        node.children)

ImportTracker(tree) == collect_imports([imports |-> {}, from_imports |-> <<>>], tree)

\* The names that one child of an expression_statement (or a top-level
\* statement) adds to global_vars.
AssignedGlobal(node) ==
    IF node.type = "assignment" /\ child_by_field_name(node, "left").type = "identifier"
    THEN {child_by_field_name(node, "left").text[1]}
    ELSE {}

\* GlobalVariableTracker.collect
GlobalVariableTracker(tree) ==
    UNION {IF tree.children[i].type = "expression_statement"
           THEN UNION {AssignedGlobal(tree.children[i].children[j]) :
                          j \in 1..Len(tree.children[i].children)}
           ELSE AssignedGlobal(tree.children[i]) :
           i \in 1..Len(tree.children)}

\* name_index = {cid.split(".")[-1]: cid for cid in all_components}: the last
\* key with that last segment; <<>> when there is none.
name_index(components, name) ==
    LET idx == {i \in 1..Len(components.keys) : LastName(components.keys[i]) = name}
    IN IF idx = {} THEN <<>>
       ELSE components.keys[CHOOSE i \in idx : \A j \in idx : j <= i]

repo_modules(components) == {components.keys[i][1] : i \in 1..Len(components.keys)}

RECURSIVE extract_chain(_)
extract_chain(node) ==
    IF node.type = "identifier" THEN <<node.text[1]>>
    ELSE IF node.type = "attribute"
            /\ child_by_field_name(node, "object") # NoNode
            /\ child_by_field_name(node, "attribute") # NoNode
    THEN extract_chain(child_by_field_name(node, "object"))
            \o <<child_by_field_name(node, "attribute").text[1]>>
    ELSE <<>>

is_ignored_name(st, name) ==
    \/ name \in BUILTIN_TYPES
    \/ name \in EXCLUDED_NAMES
    \/ name \in STANDARD_MODULES
    \/ name \in st.local_vars

\* The loop over import_tracker.from_imports.items() of resolve_name: the id it
\* returns, <<>> when the loop ends without returning.
RECURSIVE resolve_from_imports(_, _, _)
resolve_from_imports(ctx, name, from_imports) ==
    IF from_imports = <<>> THEN <<>>
    ELSE LET module == Head(from_imports).module
             imported_names == Range(Head(from_imports).names)
             in_repo == Len(module) = 1 /\ module[1] \in repo_modules(ctx.all_components)
         IN IF in_repo /\ <<"*">> \in imported_names
               /\ InTable(ctx.all_components, module \o <<name>>)
            THEN module \o <<name>>
            ELSE IF in_repo /\ <<"*">> \notin imported_names /\ <<name>> \in imported_names
            THEN module \o <<name>>
            ELSE IF ~in_repo /\ (<<"*">> \in imported_names \/ <<name>> \in imported_names)
            THEN ctx.module_path \o <<name>>
            ELSE resolve_from_imports(ctx, name, Tail(from_imports))

\* resolve_name(name): the resolved id, <<>> for None.
resolve_name(ctx, name) ==
    IF name \in ctx.global_vars THEN ctx.module_path \o <<name>>
    ELSE LET imported == resolve_from_imports(ctx, name, ctx.from_imports)
         IN IF imported # <<>> THEN imported
            ELSE IF InTable(ctx.all_components, ctx.module_path \o <<name>>)
            THEN ctx.module_path \o <<name>>
            ELSE name_index(ctx.all_components, name)

\* deps.add(resolved) when resolve_name found an id.
AddResolved(st, id) ==
    IF id # <<>> THEN [st EXCEPT !.deps = @ \cup {id}] ELSE st

process_attribute_chain(ctx, st, chain) ==
    IF chain = <<>> THEN st
    ELSE LET root == chain[1]
         IN IF is_ignored_name(st, root) THEN st
            ELSE IF <<root>> \in ctx.imports
            THEN IF root \in STANDARD_MODULES THEN st
                 ELSE IF /\ root \in repo_modules(ctx.all_components)
                         /\ Len(chain) > 1
                         /\ InTable(ctx.all_components, <<root, chain[2]>>)
                 THEN [st EXCEPT !.deps = @ \cup {<<root, chain[2]>>}]
                 ELSE st
            ELSE IF root \in ctx.global_vars
            THEN [st EXCEPT !.deps = @ \cup {ctx.module_path \o <<root>>}]
            ELSE AddResolved(st, resolve_name(ctx, root))

\* var_types[var_name] = resolved; deps.add(resolved)
TrackType(st, var_name, id) ==
    IF id = <<>> THEN st
    ELSE [st EXCEPT !.deps = @ \cup {id},
                    !.var_types = [k \in DOMAIN @ \cup {var_name} |->
                                      IF k = var_name THEN id ELSE @[k]]]

\* The base-class list of a class component: each identifier is resolved, each
\* attribute goes through process_attribute_chain.
RECURSIVE base_classes(_, _, _)
base_classes(ctx, st, children) ==
    IF children = <<>> THEN st
    ELSE LET child == Head(children)
             st1 == IF child.type = "identifier"
                    THEN AddResolved(st, resolve_name(ctx, child.text[1]))
                    ELSE IF child.type = "attribute"
                    THEN process_attribute_chain(ctx, st, extract_chain(child))
                    ELSE st
         IN base_classes(ctx, st1, Tail(children))

\* The name an assignment binds: <<var>> for an identifier, <<"self", attr>>
\* for self.attr, <<>> for None.
assigned_name(lhs) ==
    IF lhs.type = "identifier" THEN <<lhs.text[1]>>
    ELSE IF /\ lhs.type = "attribute"
            /\ child_by_field_name(lhs, "object") # NoNode
            /\ child_by_field_name(lhs, "attribute") # NoNode
            /\ child_by_field_name(lhs, "object").type = "identifier"
            /\ child_by_field_name(lhs, "object").text = <<"self">>
    THEN <<"self", child_by_field_name(lhs, "attribute").text[1]>>
    ELSE <<>>

\* The part of the assignment branch after walk(rhs).
track_assignment(ctx, st, lhs, rhs) ==
    LET var_name == assigned_name(lhs)
        st1 == IF lhs.type = "identifier"
               THEN [st EXCEPT !.local_vars = @ \cup {lhs.text[1]}]
               ELSE st
        fn == child_by_field_name(rhs, "function")
    IN IF var_name = <<>> THEN st1
       ELSE IF rhs.type = "call"
       THEN IF fn # NoNode /\ Len(extract_chain(fn)) = 1
            THEN TrackType(st1, var_name, resolve_name(ctx, extract_chain(fn)[1]))
            ELSE st1
       ELSE IF rhs.type = "identifier"
       THEN TrackType(st1, var_name, resolve_name(ctx, rhs.text[1]))
       ELSE st1

\* The keyword_argument branch.
keyword_argument(ctx, st, node) ==
    LET value == child_by_field_name(node, "value")
    IN IF /\ node.type = "keyword_argument"
          /\ value.type = "identifier"
          /\ ~is_ignored_name(st, value.text[1])
       THEN AddResolved(st, resolve_name(ctx, value.text[1]))
       ELSE st

\* The attribute branch: the state it leaves and whether it returned.
attribute_access(ctx, st, node) ==
    LET obj == child_by_field_name(node, "object")
        var == obj.text[1]
    IN IF ~(node.type = "attribute" /\ obj.type = "identifier")
       THEN [st |-> st, returned |-> FALSE]
       ELSE IF is_ignored_name(st, var)
       THEN [st |-> st, returned |-> FALSE]
       ELSE IF <<var>> \in DOMAIN st.var_types
       THEN [st |-> [st EXCEPT !.deps = @ \cup {st.var_types[<<var>>]}],
             returned |-> FALSE]
       ELSE IF <<"self", var>> \in DOMAIN st.var_types
       THEN [st |-> [st EXCEPT !.deps = @ \cup {st.var_types[<<"self", var>>]}],
             returned |-> FALSE]
       ELSE IF var \in ctx.global_vars
       THEN [st |-> [st EXCEPT !.deps = @ \cup {ctx.module_path \o <<var>>}],
             returned |-> FALSE]
       ELSE IF resolve_name(ctx, var) # <<>>
       THEN [st |-> AddResolved(st, resolve_name(ctx, var)), returned |-> TRUE]
       ELSE [st |-> process_attribute_chain(ctx, st, extract_chain(node)),
             returned |-> TRUE]

\* The identifier branch: the state it leaves and whether it returned.
identifier_reference(ctx, st, node, parent) ==
    LET name == node.text[1]
    IN IF node.type # "identifier" THEN [st |-> st, returned |-> FALSE]
       ELSE IF parent.type \in {"function_definition", "class_definition", "parameter"}
       THEN [st |-> st, returned |-> TRUE]
       ELSE IF parent.type = "attribute" /\ node.field = "attribute"
       THEN [st |-> st, returned |-> TRUE]
       ELSE IF parent.type = "keyword_argument" /\ node.field = "name"
       THEN [st |-> st, returned |-> TRUE]
       ELSE IF name = LastName(ctx.component.id)
       THEN [st |-> st, returned |-> TRUE]
       ELSE IF ~is_ignored_name(st, name)
       THEN [st |-> AddResolved(st, resolve_name(ctx, name)), returned |-> FALSE]
       ELSE [st |-> st, returned |-> FALSE]

\* class_name: the owning class of a method, "" for None.
class_name(component) ==
    IF component.type = "method" THEN component.id[Len(component.id) - 1] ELSE ""

\* The call branch.  The test for "self" sits inside the branch taken only
\* when the root of the chain is not an ignored name.
call_reference(ctx, st, node) ==
    LET fn == child_by_field_name(node, "function")
        chain == extract_chain(fn)
        root == chain[1]
        cid == Owner(ctx.component.id) \o <<chain[2]>>
    IN IF ~(node.type = "call" /\ fn # NoNode /\ chain # <<>>) THEN st
       ELSE IF is_ignored_name(st, root) THEN st
       ELSE IF root = "self" /\ class_name(ctx.component) # "" /\ Len(chain) > 1
       THEN IF InTable(ctx.all_components, cid)
            THEN [st EXCEPT !.deps = @ \cup {cid}]
            ELSE st
       ELSE IF Len(chain) = 1
       THEN AddResolved(st, resolve_name(ctx, root))
       ELSE process_attribute_chain(ctx, st, chain)

RECURSIVE walk(_, _, _, _)
RECURSIVE walk_children(_, _, _, _)

walk_children(ctx, st, children, parent) ==
    IF children = <<>> THEN st
    ELSE walk_children(ctx, walk(ctx, st, Head(children), parent), Tail(children), parent)

\* walk(node) of resolve_dependencies; parent is node.parent.
walk(ctx, st, node, parent) ==
    LET st1 == IF /\ ctx.component.type = "class"
                  /\ node.type = "argument_list"
                  /\ parent.type = "class_definition"
               THEN base_classes(ctx, st, node.children)
               ELSE st
        lhs == child_by_field_name(node, "left")
        rhs == child_by_field_name(node, "right")
        st2 == IF rhs # NoNode THEN walk(ctx, st1, rhs, node) ELSE st1
        st3 == keyword_argument(ctx, st1, node)
        a == attribute_access(ctx, st3, node)
        i == identifier_reference(ctx, a.st, node, parent)
    IN IF node.type = "assignment"
       THEN IF lhs # NoNode /\ rhs # NoNode
            THEN track_assignment(ctx, st2, lhs, rhs)
            ELSE st2
       ELSE IF a.returned THEN a.st
       ELSE IF i.returned THEN i.st
       ELSE walk_children(ctx, call_reference(ctx, i.st, node), node.children, node)

\* find_component_node: walk(node, parent_class); NoNode for None.
RECURSIVE find_component_node(_, _, _)
RECURSIVE find_in_children(_, _, _)

find_in_children(component, children, parent_class) ==
    IF children = <<>> THEN NoNode
    ELSE LET found == find_component_node(component, Head(children), parent_class)
         IN IF found # NoNode THEN found
            ELSE find_in_children(component, Tail(children), parent_class)

find_component_node(component, node, parent_class) ==
    LET FnTypes == {"function_definition", "async_function_definition"}
        name_node == child_by_field_name(node, "name")
        EndsWith(nm) == Len(component.id) >= 2 /\ LastName(component.id) = nm
        is_class == node.type = "class_definition" /\ name_node # NoNode
        pc1 == IF is_class THEN name_node.text[1] ELSE parent_class
        inner == {k \in 1..Len(node.children) : node.children[k].type \in FnTypes}
        node1 == IF component.type = "method" /\ node.type = "decorated_definition"
                    /\ inner # {}
                 THEN node.children[CHOOSE k \in inner : \A j \in inner : k <= j]
                 ELSE node
        name1 == child_by_field_name(node1, "name")
    IN IF is_class /\ component.type = "class" /\ EndsWith(name_node.text[1])
       THEN node
       ELSE IF /\ component.type = "function"
               /\ node.type \in FnTypes
               /\ name_node # NoNode
               /\ EndsWith(name_node.text[1])
       THEN node
       ELSE IF /\ component.type = "method"
               /\ node1.type \in FnTypes
               /\ name1 # NoNode
               /\ pc1 # ""
               /\ EndsWith(name1.text[1])
               /\ component.id[Len(component.id) - 1] = pc1
       THEN node1
       ELSE find_in_children(component, node1.children, pc1)

\* The names of the parameters, added to local_vars before the walk.
parameter_names(component, component_node) ==
    LET params == child_by_field_name(component_node, "parameters")
        NameOf(child) ==
            IF child.type = "identifier" THEN {child.text[1]}
            ELSE IF /\ child.type \in {"typed_parameter", "default_parameter"}
                    /\ child_by_field_name(child, "name").type = "identifier"
            THEN {child_by_field_name(child, "name").text[1]}
            ELSE {}
    IN IF component.type \in {"function", "method"}
       THEN UNION {NameOf(params.children[k]) : k \in 1..Len(params.children)}
       ELSE {}

\* resolve_dependencies that returns deps without the final filter.
resolve_dependencies_unfiltered(component, tree, components) ==
    LET tracker == ImportTracker(tree)
        ctx == [component |-> component,
                all_components |-> components,
                imports |-> tracker.imports,
                from_imports |-> tracker.from_imports,
                global_vars |-> GlobalVariableTracker(tree),
                module_path |-> component.module_path]
        component_node == find_component_node(component, tree, "")
        st0 == [deps |-> {},
                local_vars |-> parameter_names(component, component_node),
                var_types |-> <<>>]
    IN IF component_node = NoNode THEN {}
       ELSE walk(ctx, st0, component_node, NoNode).deps

\* resolve_dependencies(component, tree, source, all_components)
resolve_dependencies(component, tree, components) ==
    LET tracker == ImportTracker(tree)
        ctx == [component |-> component,
                all_components |-> components,
                imports |-> tracker.imports,
                from_imports |-> tracker.from_imports,
                global_vars |-> GlobalVariableTracker(tree),
                module_path |-> component.module_path]
        component_node == find_component_node(component, tree, "")
        st0 == [deps |-> {},
                local_vars |-> parameter_names(component, component_node),
                var_types |-> <<>>]
    IN IF component_node = NoNode THEN {}
       ELSE {dep \in walk(ctx, st0, component_node, NoNode).deps :
                InTable(components, dep)}

----------------------------------------------------------------------------
(* Repository pipeline: backend/core/repository_parser.py *)

\* The other_id that pass 3 adds to the class cid.
ContainedMethods(components, h, cid) ==
    {other_id \in Range(components.keys) :
        /\ TypeOf(components, h, other_id) = "method"
        /\ StartsWithDot(other_id, cid)
        /\ ~EndsWithInit(other_id)}

\* Pass 3: the heap after "for cid, comp in all_components.items(): if class ...".
link_class_methods(components, h) ==
    [r \in DOMAIN h |->
        IF r \in TableRefs(components) /\ h[r].type = "class"
        THEN [h[r] EXCEPT !.depends_on = @ \cup ContainedMethods(components, h, r[2])]
        ELSE h[r]]

----------------------------------------------------------------------------
(* The graph engine on every graph of the bounds *)

NodeNames == <<"a", "b", "c", "d", "e">>

GraphNodes == {<<NodeNames[i]>> : i \in 1..MaxNodes}

\* The adjacency mappings id -> set of ids over GraphNodes with at most
\* MaxEdges edges; an edge target need not be a key.

GraphOf(keys, E) ==
    [keys |-> keys, deps |-> [n \in Range(keys) |-> {e[2] : e \in {x \in E : x[1] = n}}]]

\* Only the edges whose source is a key are part of the mapping.
EdgeSetsFrom(K) == {E \in SUBSET (K \X GraphNodes) : Cardinality(E) <= MaxEdges}

\* The sets of two or more elements that a run on g iterates: the dependency
\* sets of g (detect_cycles) and, in topological_sort, the dependents sets of
\* the graph it sorts.
DepSets(g) == {S \in {g.deps[k] : k \in KeySet(g)} : Cardinality(S) >= 2}

DependentsSets(gr) ==
    {S \in {{d \in KeySet(gr) : n \in gr.deps[d]} : n \in KeySet(gr)} :
        Cardinality(S) >= 2}

\* The iteration orders of a run of detect_cycles, resolve_cycles or
\* dependency_first_dfs, and of a run of topological_sort.
SetOrders(g) == OrdersOver(DepSets(g))

TopoSetOrders(g) ==
    UNION {{so @@ f : f \in OrdersOver(DependentsSets(resolve_cycles(g, so)) \ DepSets(g))} :
           so \in SetOrders(g)}

EmptyGraph == [keys |-> <<>>, deps |-> <<>>]

EmptyTable == [keys |-> <<>>, file |-> <<>>]

InitGraph ==
    /\ pc = "graph"
    /\ files = <<>>
    /\ parsed_files = <<>>
    /\ cursor = 1
    /\ error = ""
    /\ calls = <<>>
    /\ exported = <<>>
    /\ loaded = <<>>
    /\ heap = <<>>
    /\ all_components = EmptyTable
    /\ rules_input = <<>>
    /\ \E K \in SUBSET GraphNodes : \E keys \in Perms(K) : \E E \in EdgeSetsFrom(K) :
           graph = GraphOf(keys, E)
    /\ cycles = <<>>
    /\ resolved = EmptyGraph
    /\ topo_order = <<>>
    /\ dfs_order = <<>>
    /\ emitted = 0

\* The four operations of the graph engine, each applied to the graph as built.
DetectCycles ==
    /\ pc = "graph"
    /\ \E so \in SetOrders(graph) : cycles' = detect_cycles(graph, so)
    /\ pc' = "detected"
    /\ UNCHANGED <<tableVars, graph, resolved, topo_order, dfs_order, emitted>>

ResolveCycles ==
    /\ pc = "detected"
    /\ \E so \in SetOrders(graph) :
           /\ resolved' = resolve_cycles(graph, so)
           /\ graph' = graph_after_resolve_cycles(graph, so)
    /\ pc' = "resolved"
    /\ UNCHANGED <<tableVars, cycles, topo_order, dfs_order, emitted>>

DependencyFirstDfs ==
    /\ pc = "resolved"
    /\ \E so \in SetOrders(graph) :
           /\ dfs_order' = dependency_first_dfs(graph, so)
           /\ graph' = graph_after_resolve_cycles(graph, so)
    /\ pc' = "dfs"
    /\ UNCHANGED <<tableVars, cycles, resolved, topo_order, emitted>>

TopologicalSort ==
    /\ pc = "dfs"
    /\ \E so \in TopoSetOrders(graph) :
           /\ topo_order' = topological_sort(graph, so)
           /\ emitted' = Len(kahn_result(graph, so))
           /\ graph' = graph_after_resolve_cycles(graph, so)
    /\ pc' = "sorted"
    /\ UNCHANGED <<tableVars, cycles, resolved, dfs_order>>

NextGraph == DetectCycles \/ ResolveCycles \/ DependencyFirstDfs \/ TopologicalSort

SpecGraph == InitGraph /\ [][NextGraph]_vars

----------------------------------------------------------------------------
(* The pipeline's passes after resolution, on every table of the bounds *)

\* The subsets of S with at most k elements.
RECURSIVE SubsetsUpTo(_, _)
SubsetsUpTo(S, k) ==
    IF k = 0 THEN {{}}
    ELSE LET P == SubsetsUpTo(S, k - 1)
         IN P \cup {p \cup {x} : p \in P, x \in S}

\* A table of one module A (class Foo with three methods, a global and a
\* function) and one module B (class Bar with a method).
RuleComponents ==
    <<[id |-> <<"A", "Foo">>, type |-> "class"],
      [id |-> <<"A", "Foo", "__init__">>, type |-> "method"],
      [id |-> <<"A", "Foo", "_h">>, type |-> "method"],
      [id |-> <<"A", "Foo", "bar">>, type |-> "method"],
      [id |-> <<"A", "g">>, type |-> "global_variable"],
      [id |-> <<"A", "helper">>, type |-> "function"],
      [id |-> <<"B", "Bar">>, type |-> "class"],
      [id |-> <<"B", "Bar", "m">>, type |-> "method"]>>

RuleIds == {RuleComponents[i].id : i \in 1..Len(RuleComponents)}

\* What a depends_on set may hold before the rules run: the ids of the table
\* and the id of a method of Bar that is not in the table.
RuleTargets == RuleIds \cup {<<"B", "Bar", "x">>}

NewComponent(id, language, type, module_path, depends_on) ==
    [id |-> id, language |-> language, type |-> type, module_path |-> module_path,
     depends_on |-> depends_on]

RuleHeap(D) ==
    [r \in {<<1, id>> : id \in RuleIds} |->
        LET c == CHOOSE c \in Range(RuleComponents) : c.id = r[2]
        IN NewComponent(c.id, "python", c.type, <<c.id[1]>>,
                        {d[2] : d \in {x \in D : x[1] = c.id}})]

InitRules ==
    /\ pc = "pass3"
    /\ files = <<>>
    /\ parsed_files = <<>>
    /\ cursor = 1
    /\ error = ""
    /\ calls = <<>>
    /\ exported = <<>>
    /\ loaded = <<>>
    /\ \E D \in SubsetsUpTo(RuleIds \X RuleTargets, MaxDeps) : heap = RuleHeap(D)
    /\ all_components = [keys |-> [i \in 1..Len(RuleComponents) |-> RuleComponents[i].id],
                         file |-> [id \in RuleIds |-> 1]]
    /\ rules_input = <<>>
    /\ graph = EmptyGraph
    /\ cycles = <<>>
    /\ resolved = EmptyGraph
    /\ topo_order = <<>>
    /\ dfs_order = <<>>
    /\ emitted = 0

\* Pass 3 of RepositoryParser.parse.
LinkClassMethods ==
    /\ pc = "pass3"
    /\ heap' = link_class_methods(all_components, heap)
    /\ pc' = "rules"
    /\ UNCHANGED <<parseVars, irVars, calls, all_components, rules_input, graphVars>>

\* The last two lines of RepositoryParser.parse.
ApplyDocDependencyRules ==
    /\ pc = "rules"
    /\ rules_input' = heap
    /\ heap' = apply_doc_dependency_rules(all_components, heap)
    /\ pc' = "returned"
    /\ UNCHANGED <<parseVars, irVars, calls, all_components, graphVars>>

\* apply_doc_dependency_rules called on a table as it is.
ApplyRulesToTable ==
    /\ pc = "pass3"
    /\ rules_input' = heap
    /\ heap' = apply_doc_dependency_rules(all_components, heap)
    /\ pc' = "abstracted"
    /\ UNCHANGED <<parseVars, irVars, calls, all_components, graphVars>>

\* apply_doc_dependency_rules called again on its own result.
ReapplyRules ==
    /\ pc \in {"returned", "abstracted"}
    /\ heap' = apply_doc_dependency_rules(all_components, heap)
    /\ pc' = "reapplied"
    /\ UNCHANGED <<parseVars, irVars, calls, all_components, rules_input, graphVars>>

NextRules == LinkClassMethods \/ ApplyDocDependencyRules \/ ApplyRulesToTable \/ ReapplyRules

SpecRules == InitRules /\ [][NextRules]_vars

-----------------------------------------------------------------------------
(* Serialisation of a component: core/ir.py *)

\* CodeComponent.to_dict.  list(self.depends_on) lists the set in the order this
\* run iterates it, so the record holds a sequence; id, language, type and
\* module_path are copied.  (file_path, the line numbers, the docstring and the
\* truncated source_code are fields the model of a component does not carry.)
to_dict(self, so) ==
    [id |-> self.id, language |-> self.language, type |-> self.type,
     module_path |-> self.module_path, depends_on |-> Iter(self.depends_on, so)]

from_dict_default_dependencies(data) ==
    NewComponent(data.id, data.language, data.type, data.module_path, {})

\* CodeComponent.from_dict: set(data.get('depends_on', [])) collects the listed
\* elements into a new set.
from_dict(data) ==
    NewComponent(data.id, data.language, data.type, data.module_path,
                 Range(data.depends_on))

IrLanguages == {"python", "javascript"}

\* The component of the round trip.
IrComponent == heap[CHOOSE r \in DOMAIN heap : TRUE]

\* A component of any id, type and language of the bounds, with any set of at
\* most MaxDeps dependencies.
InitIR ==
    /\ pc = "component"
    /\ files = <<>>
    /\ parsed_files = <<>>
    /\ cursor = 1
    /\ error = ""
    /\ calls = <<>>
    /\ exported = <<>>
    /\ loaded = <<>>
    /\ \E i \in 1..Len(RuleComponents) : \E language \in IrLanguages :
         \E D \in SubsetsUpTo(RuleTargets, MaxDeps) :
           LET c == RuleComponents[i]
           IN heap = (<<1, c.id>> :> NewComponent(c.id, language, c.type, <<c.id[1]>>, D))
    /\ all_components = EmptyTable
    /\ rules_input = <<>>
    /\ graph = EmptyGraph
    /\ cycles = <<>>
    /\ resolved = EmptyGraph
    /\ topo_order = <<>>
    /\ dfs_order = <<>>
    /\ emitted = 0

ToDict ==
    /\ pc = "component"
    /\ \E so \in OrdersOver({S \in {IrComponent.depends_on} : Cardinality(S) >= 2}) :
           exported' = to_dict(IrComponent, so)
    /\ pc' = "exported"
    /\ UNCHANGED <<parseVars, calls, loaded, heap, all_components, rules_input, graphVars>>

FromDict ==
    /\ pc = "exported"
    /\ loaded' = from_dict(exported)
    /\ pc' = "loaded"
    /\ UNCHANGED <<parseVars, calls, exported, heap, all_components, rules_input, graphVars>>

NextIR == ToDict \/ FromDict

SpecIR == InitIR /\ [][NextIR]_vars

----------------------------------------------------------------------------
(* Python extractor: backend/languages/python/extractor.py *)

\* components[cid] = ...: a new key goes last, a known key keeps its place.
DictPut(entries, cid, type) ==
    IF \E i \in 1..Len(entries) : entries[i].id = cid
    THEN [i \in 1..Len(entries) |->
            IF entries[i].id = cid THEN [id |-> cid, type |-> type] ELSE entries[i]]
    ELSE Append(entries, [id |-> cid, type |-> type])

\* The function node of a statement of a class body: NoNode when the
\* statement is skipped.
method_node(stmt) ==
    LET FnTypes == {"function_definition", "async_function_definition"}
        inner == {k \in 1..Len(stmt.children) : stmt.children[k].type \in FnTypes}
    IN IF stmt.type \in FnTypes THEN stmt
       ELSE IF stmt.type = "decorated_definition" /\ inner # {}
       THEN stmt.children[CHOOSE k \in inner : \A j \in inner : k <= j]
       ELSE NoNode

\* The loop "for stmt in body.children" of the class branch.
RECURSIVE extract_methods(_, _, _)
extract_methods(entries, class_id, stmts) ==
    IF stmts = <<>> THEN entries
    ELSE LET func_node == method_node(Head(stmts))
             method_id == class_id \o <<child_by_field_name(func_node, "name").text[1]>>
         IN extract_methods(
                IF func_node = NoNode THEN entries
                ELSE DictPut(entries, method_id, "method"),
                class_id, Tail(stmts))

RECURSIVE extract_walk(_, _, _, _)
RECURSIVE extract_walk_children(_, _, _, _)

extract_walk_children(entries, module_path, children, parent_type) ==
    IF children = <<>> THEN entries
    ELSE extract_walk_children(
             extract_walk(entries, module_path, Head(children), parent_type),
             module_path, Tail(children), parent_type)

\* walk(node, parent_type) of extract_components.
extract_walk(entries, module_path, node, parent_type) ==
    LET name == child_by_field_name(node, "name").text[1]
        body == child_by_field_name(node, "body")
        here ==
            IF /\ node.type \in {"function_definition", "async_function_definition"}
               /\ parent_type = "module"
            THEN DictPut(entries, module_path \o <<name>>, "function")
            ELSE IF node.type = "class_definition"
            THEN extract_methods(DictPut(entries, module_path \o <<name>>, "class"),
                                 module_path \o <<name>>, body.children)
            ELSE entries
    IN extract_walk_children(here, module_path, node.children, node.type)

\* extract_components(tree, source, file_path, module_path): the ids and types
\* of the dict it returns, in insertion order.
extract_components(tree, module_path) == extract_walk(<<>>, module_path, tree, "module")

----------------------------------------------------------------------------
(* JavaScript extractor and resolver, used by the JavaScript and the       *)
(* TypeScript adapter: backend/languages/javascript                        *)

\* The loop over body.children of the class branch: the methods appended.
RECURSIVE js_methods(_, _)
js_methods(class_id, children) ==
    IF children = <<>> THEN <<>>
    ELSE LET child == Head(children)
             key == child_by_field_name(child, "name")
         IN (IF child.type = "method_definition" /\ key # NoNode
             THEN <<[id |-> class_id \o <<key.text[1]>>, type |-> "method"]>>
             ELSE <<>>) \o js_methods(class_id, Tail(children))

RECURSIVE js_extract_walk(_, _)
RECURSIVE js_extract_walk_children(_, _)

js_extract_walk_children(module_path, children) ==
    IF children = <<>> THEN <<>>
    ELSE js_extract_walk(module_path, Head(children))
            \o js_extract_walk_children(module_path, Tail(children))

\* walk(node) of the JavaScript extract_components: the components appended,
\* in order.
js_extract_walk(module_path, node) ==
    LET name_node == child_by_field_name(node, "name")
        body == child_by_field_name(node, "body")
        here ==
            IF node.type = "function_declaration" /\ name_node # NoNode
            THEN <<[id |-> module_path \o <<name_node.text[1]>>, type |-> "function"]>>
            ELSE IF node.type = "class_declaration" /\ name_node # NoNode
            THEN <<[id |-> module_path \o <<name_node.text[1]>>, type |-> "class"]>>
                    \o js_methods(module_path \o <<name_node.text[1]>>, body.children)
            ELSE <<>>
    IN here \o js_extract_walk_children(module_path, node.children)

\* The JavaScript extract_components: the list it returns.
js_extract_components(tree, module_path) == js_extract_walk(module_path, tree)

\* name_map of the JavaScript resolver: the last component of the table that
\* is tagged "javascript" and has that last segment; <<>> when there is none.
js_name_map(components, h, name) ==
    LET idx == {i \in 1..Len(components.keys) :
                   /\ h[RefOf(components, components.keys[i])].language = "javascript"
                   /\ LastName(h[RefOf(components, components.keys[i])].id) = name}
    IN IF idx = {} THEN <<>>
       ELSE h[RefOf(components, components.keys[CHOOSE i \in idx : \A j \in idx : j <= i])].id

\* The name a node of the tree refers to as a call target, "" when the node
\* is none of the three forms the resolver looks at.
js_called_name(node) ==
    LET fn == child_by_field_name(node, "function")
        prop == child_by_field_name(fn, "property")
        ctor == child_by_field_name(node, "constructor")
    IN IF node.type = "call_expression" /\ fn.type = "identifier" THEN fn.text[1]
       ELSE IF node.type = "call_expression" /\ fn.type = "member_expression" /\ prop # NoNode
       THEN prop.text[1]
       ELSE IF node.type = "new_expression" /\ ctor.type = "identifier" THEN ctor.text[1]
       ELSE ""

RECURSIVE js_walk(_, _, _, _)
RECURSIVE js_walk_children(_, _, _, _)

js_walk_children(component, components, h, children) ==
    IF children = <<>> THEN {}
    ELSE js_walk(component, components, h, Head(children))
            \cup js_walk_children(component, components, h, Tail(children))

\* walk(node) of the JavaScript resolve_dependencies: the ids added to deps.
js_walk(component, components, h, node) ==
    LET name == js_called_name(node)
        target == js_name_map(components, h, name)
    IN (IF name # "" /\ target # <<>> /\ target # component.id THEN {target} ELSE {})
          \cup js_walk_children(component, components, h, node.children)

\* The JavaScript resolve_dependencies: it walks tree.root_node.
js_resolve_dependencies(component, tree, components, h) ==
    js_walk(component, components, h, tree)

----------------------------------------------------------------------------
(* Java extractor: languages/java/extractor.py *)

\* The method_declaration nodes among the children of the class declaration
\* itself.
RECURSIVE java_methods(_, _)
java_methods(cid, children) ==
    IF children = <<>> THEN <<>>
    ELSE (IF Head(children).type = "method_declaration"
          THEN <<[id |-> cid \o <<child_by_field_name(Head(children), "name").text[1]>>,
                  type |-> "method"]>>
          ELSE <<>>) \o java_methods(cid, Tail(children))

RECURSIVE java_classes(_, _)
java_classes(module_path, children) ==
    IF children = <<>> THEN <<>>
    ELSE LET node == Head(children)
             cid == module_path \o <<child_by_field_name(node, "name").text[1]>>
         IN (IF node.type = "class_declaration"
             THEN <<[id |-> cid, type |-> "class"]>> \o java_methods(cid, node.children)
             ELSE <<>>) \o java_classes(module_path, Tail(children))

\* The Java extract_components: the list it returns.
java_extract_components(tree, module_path) == java_classes(module_path, tree.children)

----------------------------------------------------------------------------
(* The pipeline on the repositories of the scenarios *)

\* AdapterRegistry: the adapters in registration order.
Adapters ==
    <<[language |-> "python", extensions |-> {".py"}],
      [language |-> "javascript", extensions |-> {".js", ".jsx"}],
      [language |-> "typescript", extensions |-> {".ts", ".tsx"}],
      [language |-> "java", extensions |-> {".java"}]>>

\* get_adapter_for_file: the language of the first adapter with a matching
\* extension, "" for None.
get_adapter_for_file(file) ==
    LET hits == {i \in 1..Len(Adapters) : file.ext \in Adapters[i].extensions}
    IN IF hits = {} THEN ""
       ELSE Adapters[CHOOSE i \in hits : \A j \in hits : i <= j].language

Ident(name, field) == Node("identifier", <<name>>, field, <<>>)

PassBody == Node("block", <<>>, "body", <<Node("pass_statement", <<>>, "", <<>>)>>)

\* def name(params): body
FunctionDef(name, params, body) ==
    Node("function_definition", <<>>, "",
         <<Ident(name, "name"),
           Node("parameters", <<>>, "parameters", [i \in 1..Len(params) |-> Ident(params[i], "")]),
           body>>)

\* callee(): an expression filling the given field.
Call(callee, field) ==
    Node("call", <<>>, field, <<callee, Node("argument_list", <<>>, "arguments", <<>>)>>)

\* object.name, with the object already in its field.
Attribute(object, name, field) ==
    Node("attribute", <<>>, field, <<object, Ident(name, "attribute")>>)

\* A block of expression statements.
Block(exprs) ==
    Node("block", <<>>, "body",
         [i \in 1..Len(exprs) |-> Node("expression_statement", <<>>, "", <<exprs[i]>>)])

\* A.py:   class Foo:
\*             def bar(self): self.baz()
\*             def baz(self): pass
\*         def helper(): pass
TreeA ==
    Node("module", <<>>, "",
         <<Node("class_definition", <<>>, "",
                <<Ident("Foo", "name"),
                  Node("block", <<>>, "body",
                       <<FunctionDef("bar", <<"self">>,
                             Block(<<Call(Attribute(Ident("self", "object"), "baz", "function"), "")>>)),
                         FunctionDef("baz", <<"self">>, PassBody)>>)>>),
           FunctionDef("helper", <<>>, PassBody)>>)

\* from A import Foo
ImportFoo ==
    Node("import_from_statement", <<>>, "",
         <<Node("dotted_name", <<"A">>, "module_name", <<Ident("A", "")>>),
           Node("dotted_name", <<"Foo">>, "name", <<Ident("Foo", "")>>)>>)

\* def use_foo(): Foo().bar()
UseFoo ==
    FunctionDef("use_foo", <<>>,
        Block(<<Call(Attribute(Call(Ident("Foo", "function"), "object"), "bar", "function"), "")>>))

\* B.py, with and without the import line.
TreeB(with_import) ==
    Node("module", <<>>, "", IF with_import THEN <<ImportFoo, UseFoo>> ELSE <<UseFoo>>)

\* M.py:   def f(): g()
\*         def g(): f()
TreeM ==
    Node("module", <<>>, "",
         <<FunctionDef("f", <<>>, Block(<<Call(Ident("g", "function"), "")>>)),
           FunctionDef("g", <<>>, Block(<<Call(Ident("f", "function"), "")>>))>>)

\* A file of the repository: its path relative to the root without the
\* extension, as segments; its extension; the tree its source parses to; and
\* the exception that reading, parsing or extracting it raises, "" for none:
\* OSError when open() fails on it, RecursionError when its tree is deeper
\* than the interpreter's recursion limit, which the recursive walk of the
\* extractor then exceeds.
RepoFile(name, ext, tree, fault) ==
    [name |-> name, ext |-> ext, tree |-> tree, fault |-> fault]

SourceFile(name, ext, tree) == RepoFile(name, ext, tree, "")

FileA == SourceFile(<<"A">>, ".py", TreeA)

Readme == SourceFile(<<"README">>, ".md", NoNode)

\* G.py:   g = 1
\*         g = 2
\*         def use(): g.x
TreeG ==
    LET Assign(value) ==
            Node("expression_statement", <<>>, "",
                 <<Node("assignment", <<>>, "",
                        <<Ident("g", "left"), Node("integer", <<value>>, "right", <<>>)>>)>>)
    IN Node("module", <<>>, "",
            <<Assign("1"), Assign("2"),
              FunctionDef("use", <<>>, Block(<<Attribute(Ident("g", "object"), "x", "")>>))>>)

\* L.py:   def helper(): pass
\*         def run(helper): v = helper()
TreeL ==
    Node("module", <<>>, "",
         <<FunctionDef("helper", <<>>, PassBody),
           FunctionDef("run", <<"helper">>,
               Block(<<Node("assignment", <<>>, "",
                            <<Ident("v", "left"), Call(Ident("helper", "function"), "right")>>)>>))>>)

\* K.py:   class Foo:
\*             def bar(self): helper()
\*         def helper(): Foo()
TreeK ==
    Node("module", <<>>, "",
         <<Node("class_definition", <<>>, "",
                <<Ident("Foo", "name"),
                  Node("block", <<>>, "body",
                       <<FunctionDef("bar", <<"self">>,
                             Block(<<Call(Ident("helper", "function"), "")>>))>>)>>),
           FunctionDef("helper", <<>>, Block(<<Call(Ident("Foo", "function"), "")>>))>>)

\* function name() { callee(); ... }
JsFunction(name, callees) ==
    Node("function_declaration", <<>>, "",
         <<Ident(name, "name"),
           Node("formal_parameters", <<>>, "parameters", <<>>),
           Node("statement_block", <<>>, "body",
                [i \in 1..Len(callees) |->
                    Node("expression_statement", <<>>, "",
                         <<Node("call_expression", <<>>, "",
                                <<Ident(callees[i], "function"),
                                  Node("arguments", <<>>, "arguments", <<>>)>>)>>)])>>)

\* app.ts:   function main() { helper(); }
TreeApp == Node("program", <<>>, "", <<JsFunction("main", <<"helper">>)>>)

\* util.js:  function helper() {}
\*           class Tool { run() { new Tool(); } }
TreeUtil ==
    Node("program", <<>>, "",
         <<JsFunction("helper", <<>>),
           Node("class_declaration", <<>>, "",
                <<Ident("Tool", "name"),
                  Node("class_body", <<>>, "body",
                       <<Node("method_definition", <<>>, "",
                              <<Node("property_identifier", <<"run">>, "name", <<>>),
                                Node("formal_parameters", <<>>, "parameters", <<>>),
                                Node("statement_block", <<>>, "body",
                                     <<Node("expression_statement", <<>>, "",
                                            <<Node("new_expression", <<>>, "",
                                                   <<Ident("Tool", "constructor"),
                                                     Node("arguments", <<>>, "arguments", <<>>)>>)>>)>>)>>)>>)>>)>>)

\* A.js:     function helper() { extra(); }
\*           function extra() {}
TreeAJs ==
    Node("program", <<>>, "", <<JsFunction("helper", <<"extra">>), JsFunction("extra", <<>>)>>)

\* Main.java:  class Main { void run() {} }
TreeMain ==
    Node("program", <<>>, "",
         <<Node("class_declaration", <<>>, "",
                <<Ident("Main", "name"),
                  Node("class_body", <<>>, "body",
                       <<Node("method_declaration", <<>>, "", <<Ident("run", "name")>>)>>)>>)>>)

\* The repositories, every file in the root directory: the two-file scenario
\* with and without the import line and with a file no adapter takes; the
\* one-file mutual recursion; module-level assignments; a TypeScript and a
\* JavaScript file; a Python and a JavaScript file of the same module path,
\* both defining helper; a Java file; a parameter that shadows a function of
\* the module; a method and a function that call each other's owner; a file that cannot be opened; a file nested too deeply for the
\* extractor.
Repositories ==
    {{FileA, SourceFile(<<"B">>, ".py", TreeB(FALSE))},
     {FileA, SourceFile(<<"B">>, ".py", TreeB(TRUE))},
     {FileA, SourceFile(<<"B">>, ".py", TreeB(TRUE)), Readme},
     {SourceFile(<<"M">>, ".py", TreeM), Readme},
     {SourceFile(<<"G">>, ".py", TreeG)},
     {SourceFile(<<"app">>, ".ts", TreeApp), SourceFile(<<"util">>, ".js", TreeUtil)},
     {FileA, SourceFile(<<"A">>, ".js", TreeAJs)},
     {SourceFile(<<"Main">>, ".java", TreeMain), SourceFile(<<"M">>, ".py", TreeM)},
     {SourceFile(<<"L">>, ".py", TreeL)},
     {SourceFile(<<"K">>, ".py", TreeK)},
     {FileA, RepoFile(<<"locked">>, ".py", NoNode, "OSError")},
     {SourceFile(<<"util">>, ".js", TreeUtil), RepoFile(<<"deep">>, ".js", NoNode, "RecursionError")}}

\* components = {c.id: c for c in raw_components}, and the identity on the
\* dict of the Python extractor.
RECURSIVE normalize(_, _)
normalize(entries, raw) ==
    IF raw = <<>> THEN entries
    ELSE normalize(DictPut(entries, Head(raw).id, Head(raw).type), Tail(raw))

\* adapter.extract_components followed by the normalisation step: the ids
\* and types of the file's components in dict order.
adapter_extract(adapter, tree, module_path) ==
    normalize(<<>>,
        IF adapter = "python" THEN extract_components(tree, module_path)
        ELSE IF adapter = "java" THEN java_extract_components(tree, module_path)
        ELSE js_extract_components(tree, module_path))

\* The language tag the adapter's extractor writes into its components.
extractor_language(adapter) ==
    IF adapter = "python" THEN "python"
    ELSE IF adapter = "java" THEN "java"
    ELSE "javascript"

\* The depends_on field of a new component.  The Python and the JavaScript
\* extractor pass keywords and leave the default, an empty set; the Java
\* extractor passes its arguments by position, so the sixth one, the start
\* line, lands in depends_on.  The trees carry no positions: line 1 stands
\* for the start line.
initial_depends_on(adapter) == IF adapter = "java" THEN 1 ELSE {}

\* depends_on is a set: update, add and discard exist on it.
HasSetDependsOn(component) == component.language # "java"

\* adapter_resolve of a resolver that also reads the depends_on sets of the
\* components it found and returns their members with them.
adapter_resolve_reading_dependencies(adapter, component, tree, components, h) ==
    LET own == IF adapter = "python" THEN resolve_dependencies(component, tree, components)
               ELSE IF adapter = "java" THEN {}
               ELSE js_resolve_dependencies(component, tree, components, h)
    IN own \cup UNION {h[RefOf(components, dep)].depends_on :
                          dep \in {d \in own : HasSetDependsOn(h[RefOf(components, d)])}}

\* adapter.resolve_dependencies(component, tree, source, all_components)
adapter_resolve(adapter, component, tree, components, h) ==
    IF adapter = "python" THEN resolve_dependencies(component, tree, components)
    ELSE IF adapter = "java" THEN {}
    ELSE js_resolve_dependencies(component, tree, components, h)

\* The components of the parsed files in the order pass 2 visits them.
RECURSIVE Pass2Work(_, _)
Pass2Work(parsed, n) ==
    IF n > Len(parsed) THEN <<>>
    ELSE [i \in 1..Len(parsed[n].keys) |-> <<n, parsed[n].keys[i]>>] \o Pass2Work(parsed, n + 1)

\* TableUpdate that keeps the object an id already maps to.
TableUpdateFirstWins(components, keys, n) ==
    LET new == SelectSeq(keys, LAMBDA k : ~InTable(components, k))
    IN [keys |-> components.keys \o new,
        file |-> [id \in Range(components.keys) \cup Range(keys) |->
                     IF InTable(components, id) THEN components.file[id] ELSE n]]

\* all_components.update(components), the objects being those of file n.
TableUpdate(components, keys, n) ==
    LET new == SelectSeq(keys, LAMBDA k : ~InTable(components, k))
    IN [keys |-> components.keys \o new,
        file |-> [id \in Range(components.keys) \cup Range(keys) |->
                     IF id \in Range(keys) THEN n ELSE components.file[id]]]

\* build_graph_from_components(components)
build_graph_from_components(components, h) ==
    [keys |-> components.keys,
     deps |-> [id \in Range(components.keys) |->
                  {dep \in h[RefOf(components, id)].depends_on : InTable(components, dep)}]]

Init ==
    /\ \E repo \in Repositories : \E order \in Perms(repo) : files = order
    /\ pc = IF files = <<>> THEN "pass3" ELSE "pass1"
    /\ parsed_files = <<>>
    /\ cursor = 1
    /\ error = ""
    /\ calls = <<>>
    /\ exported = <<>>
    /\ loaded = <<>>
    /\ heap = <<>>
    /\ all_components = EmptyTable
    /\ rules_input = <<>>
    /\ graph = EmptyGraph
    /\ cycles = <<>>
    /\ resolved = EmptyGraph
    /\ topo_order = <<>>
    /\ dfs_order = <<>>
    /\ emitted = 0

\* AfterFile that starts pass 2 as soon as some file has components.
AfterFileEager(parsed) ==
    IF Pass2Work(parsed, 1) # <<>> THEN "pass2"
    ELSE IF cursor < Len(files) THEN "pass1"
    ELSE "pass3"

\* The position after the body of pass 1 has run for file number cursor.
AfterFile(parsed) ==
    IF cursor < Len(files) THEN "pass1"
    ELSE IF Pass2Work(parsed, 1) = <<>> THEN "pass3" ELSE "pass2"

\* Pass 1, a file no adapter takes: continue.
SkipFile ==
    /\ pc = "pass1"
    /\ get_adapter_for_file(files[cursor]) = ""
    /\ pc' = AfterFile(parsed_files)
    /\ cursor' = IF pc' = "pass1" THEN cursor + 1 ELSE 1
    /\ UNCHANGED <<irVars, calls, files, parsed_files, error, heap, all_components, rules_input, graphVars>>

\* Pass 1, a file an adapter takes: read, parse, extract, normalise, record,
\* update the global table.
ParseFile ==
    /\ pc = "pass1"
    /\ get_adapter_for_file(files[cursor]) # ""
    /\ files[cursor].fault = ""
    /\ LET file == files[cursor]
           adapter == get_adapter_for_file(file)
           n == Len(parsed_files) + 1
           entries == adapter_extract(adapter, file.tree, file.name)
           keys == [i \in 1..Len(entries) |-> entries[i].id]
           objects == [r \in {<<n, keys[i]>> : i \in 1..Len(keys)} |->
                          LET e == CHOOSE e \in Range(entries) : e.id = r[2]
                          IN NewComponent(e.id, extractor_language(adapter), e.type,
                                          file.name, initial_depends_on(adapter))]
       IN /\ parsed_files' = Append(parsed_files,
                                    [adapter |-> adapter, tree |-> file.tree, keys |-> keys])
          /\ heap' = objects @@ heap
          /\ all_components' = TableUpdate(all_components, keys, n)
    /\ pc' = AfterFile(parsed_files')
    /\ cursor' = IF pc' = "pass1" THEN cursor + 1 ELSE 1
    /\ UNCHANGED <<irVars, calls, files, error, rules_input, graphVars>>

\* Pass 1, a file an adapter takes and whose reading, parsing or extraction
\* raises: nothing in parse catches the exception, it leaves parse.
FileRaises ==
    /\ pc = "pass1"
    /\ get_adapter_for_file(files[cursor]) # ""
    /\ files[cursor].fault # ""
    /\ pc' = "raised"
    /\ error' = files[cursor].fault
    /\ UNCHANGED <<irVars, calls, files, parsed_files, cursor, heap, all_components, rules_input, graphVars>>

\* Pass 2, one component: component.depends_on.update(deps).
ResolveComponent ==
    /\ pc = "pass2"
    /\ LET work == Pass2Work(parsed_files, 1)
           ref == work[cursor]
           deps == adapter_resolve(parsed_files[ref[1]].adapter, heap[ref],
                                   parsed_files[ref[1]].tree, all_components, heap)
       IN /\ HasSetDependsOn(heap[ref])
          /\ heap' = [heap EXCEPT ![ref].depends_on = @ \cup deps]
          /\ pc' = IF cursor < Len(work) THEN "pass2" ELSE "pass3"
    /\ cursor' = IF pc' = "pass2" THEN cursor + 1 ELSE 1
    /\ UNCHANGED <<irVars, calls, files, parsed_files, error, all_components, rules_input, graphVars>>

\* Pass 2, a component whose depends_on is an int: update does not exist on
\* it and the AttributeError leaves parse.
UpdateRaises ==
    /\ pc = "pass2"
    /\ ~HasSetDependsOn(heap[Pass2Work(parsed_files, 1)[cursor]])
    /\ pc' = "raised"
    /\ error' = "AttributeError"
    /\ UNCHANGED <<irVars, calls, files, parsed_files, cursor, heap, all_components, rules_input, graphVars>>

\* main(): graph = build_graph_from_components(components).
BuildGraph ==
    /\ pc = "returned"
    /\ files # <<>>
    /\ graph' = build_graph_from_components(all_components, heap)
    /\ pc' = "graph"
    /\ UNCHANGED <<tableVars, cycles, resolved, topo_order, dfs_order, emitted>>

Next ==
    \/ SkipFile
    \/ ParseFile
    \/ FileRaises
    \/ ResolveComponent
    \/ UpdateRaises
    \/ LinkClassMethods
    \/ ApplyDocDependencyRules
    \/ BuildGraph
    \/ DetectCycles
    \/ ResolveCycles
    \/ DependencyFirstDfs
    \/ TopologicalSort

Spec == Init /\ [][Next]_vars

----------------------------------------------------------------------------
(* Pass 2 with its calls in any order and interleaving *)

\* Pass 2 of RepositoryParser.parse as the code runs it, one call after the
\* other over the given components: the heap it leaves.
RECURSIVE pass2(_, _, _, _)
pass2(parsed, components, h, work) ==
    IF work = <<>> THEN h
    ELSE LET ref == Head(work)
             deps == adapter_resolve(parsed[ref[1]].adapter, h[ref], parsed[ref[1]].tree,
                                     components, h)
         IN pass2(parsed, components, [h EXCEPT ![ref].depends_on = @ \cup deps], Tail(work))

Pass2Refs == Range(Pass2Work(parsed_files, 1))

\* A call adapter.resolve_dependencies(component, ...) of pass 2 runs and
\* returns, for any component not yet taken, on the table as it is now.
StartResolve ==
    /\ pc = "pass2"
    /\ \E ref \in Pass2Refs \ DOMAIN calls :
           calls' = (ref :> [deps |-> adapter_resolve(parsed_files[ref[1]].adapter, heap[ref],
                                                     parsed_files[ref[1]].tree,
                                                     all_components, heap),
                            done |-> FALSE]) @@ calls
    /\ UNCHANGED <<pc, parseVars, irVars, heap, all_components, rules_input, graphVars>>

\* component.depends_on.update(deps) for a call that has returned.
FinishResolve ==
    /\ pc = "pass2"
    /\ \E ref \in DOMAIN calls :
           /\ ~calls[ref].done
           /\ HasSetDependsOn(heap[ref])
           /\ heap' = [heap EXCEPT ![ref].depends_on = @ \cup calls[ref].deps]
           /\ calls' = [calls EXCEPT ![ref].done = TRUE]
    /\ pc' = IF \A r \in Pass2Refs : r \in DOMAIN calls' /\ calls'[r].done
             THEN "pass3" ELSE "pass2"
    /\ UNCHANGED <<parseVars, irVars, all_components, rules_input, graphVars>>

\* The update for a component whose depends_on is an int: AttributeError.
FinishRaises ==
    /\ pc = "pass2"
    /\ \E ref \in DOMAIN calls : ~calls[ref].done /\ ~HasSetDependsOn(heap[ref])
    /\ pc' = "raised"
    /\ error' = "AttributeError"
    /\ UNCHANGED <<irVars, calls, files, parsed_files, cursor, heap, all_components,
                   rules_input, graphVars>>

NextAnyOrder ==
    \/ SkipFile
    \/ ParseFile
    \/ FileRaises
    \/ StartResolve
    \/ FinishResolve
    \/ FinishRaises

SpecAnyOrder == Init /\ [][NextAnyOrder]_vars

----------------------------------------------------------------------------
(* Properties of the graph engine *)

Targets(g) == UNION {g.deps[k] : k \in KeySet(g)}

NodesOf(g) == KeySet(g) \cup Targets(g)

\* The nodes reachable from the set S by one or more edges.
RECURSIVE ReachFrom(_, _)
ReachFrom(g, S) ==
    LET T == S \cup UNION {GraphGet(g, n) : n \in S}
    IN IF T = S THEN S ELSE ReachFrom(g, T)

Reaches(g, a, b) == b \in ReachFrom(g, GraphGet(g, a))

\* a and b are different nodes of one strongly connected component.
SameScc(g, a, b) == a # b /\ Reaches(g, a, b) /\ Reaches(g, b, a)

HasMultiScc(g) == \E a, b \in NodesOf(g) : SameScc(g, a, b)

SameGraph(g, h) ==
    KeySet(g) = KeySet(h) /\ \A n \in KeySet(g) : g.deps[n] = h.deps[n]

NoSelfLoops(g) == \A n \in KeySet(g) : n \notin g.deps[n]

TargetsAreKeys(g) == Targets(g) \subseteq KeySet(g)

IsOrderOf(s, S) == Range(s) = S /\ Len(s) = Cardinality(S)

Before(s, b, a) ==
    /\ a \in Range(s)
    /\ b \in Range(s)
    /\ IndexOf(s, b) < IndexOf(s, a)

\* C1: after resolve_cycles, detect_cycles reports nothing, and no two
\* different nodes of the result are mutually reachable.
C1_AcyclicAfterResolve ==
    pc = "resolved" =>
        /\ \A so \in SetOrders(resolved) : detect_cycles(resolved, so) = <<>>
        /\ ~HasMultiScc(resolved)

C1_Witness == pc = "resolved" /\ cycles # <<>> /\ HasMultiScc(graph)

C3_DfsDependencyFirst ==
    pc = "dfs" =>
        \A e \in Edges(resolved) : e[1] # e[2] => Before(dfs_order, e[2], e[1])

C3_Witness ==
    /\ pc = "dfs" /\ cycles # <<>>
    /\ \E e \in Edges(resolved) : IdLess(e[1], e[2])

\* C4: on a graph whose edge targets are all keys, topological_sort and
\* dependency_first_dfs each list every node exactly once.
C4_OrdersAreTotal ==
    (pc = "sorted" /\ TargetsAreKeys(graph)) =>
        /\ IsOrderOf(topo_order, KeySet(graph))
        /\ IsOrderOf(dfs_order, KeySet(graph))

C4_Witness ==
    /\ pc = "sorted" /\ TargetsAreKeys(graph)
    /\ Len(graph.keys) = MaxNodes
    /\ ~NoSelfLoops(graph)
    /\ Edges(resolved) # {}

\* The graphs with the nodes and edges of g, in every insertion order.
Reorderings(g) == {[keys |-> k, deps |-> g.deps] : k \in Perms(KeySet(g))}

\* C5: topological_sort is a function of the node set and the edge set alone:
\* every insertion order of the mapping and every iteration order of its sets
\* gives the sequence this run returned.
C5_TopoDeterministic ==
    pc = "sorted" =>
        \A g2 \in Reorderings(graph) : \A so \in TopoSetOrders(g2) :
            topological_sort(g2, so) = topo_order

\* C10: resolve_cycles applied to its own result changes neither nodes nor
\* edges, and a graph with no multi-node strongly connected component is
\* returned with nodes and edges unchanged.
C10_ResolveIdempotent ==
    pc = "resolved" =>
        /\ \A so \in SetOrders(resolved) : SameGraph(resolve_cycles(resolved, so), resolved)
        /\ (~HasMultiScc(graph) => SameGraph(resolved, graph))

C10_Witness ==
    /\ pc = "resolved"
    /\ HasMultiScc(graph)
    /\ ~SameGraph(resolved, graph)
    /\ Edges(resolved) # {}

\* An edge a->b of g that lies inside a strongly connected component of more
\* than one node (a self-loop a->a does when a is in such a component).
InsideMultiScc(g, a, b) ==
    IF a = b THEN \E c \in NodesOf(g) : SameScc(g, a, c) ELSE SameScc(g, a, b)

\* C18: resolve_cycles keeps the node set and removes exactly the edges that lie
\* inside a strongly connected component of more than one node: edges between
\* two components and self-loops of a singleton component are kept.
C18_ExactlyIntraSccEdgesRemoved ==
    pc = "resolved" =>
        /\ resolved.keys = graph.keys
        /\ Edges(resolved) = {e \in Edges(graph) : ~InsideMultiScc(graph, e[1], e[2])}

\* A mutual cycle a<->b whose two edges are both gone, next to an edge between
\* two components that is kept.
C18_Witness ==
    /\ pc = "resolved"
    /\ \E a, b \in KeySet(graph) :
         /\ a # b
         /\ {<<a, b>>, <<b, a>>} \subseteq Edges(graph)
         /\ {<<a, b>>, <<b, a>>} \cap Edges(resolved) = {}
    /\ \E e \in Edges(resolved) : e[1] # e[2]

SortedForm(g) == [keys |-> sorted(KeySet(g)), deps |-> g.deps]

SortedOrders(g) == [S \in DepSets(g) |-> sorted(S)]

\* C28: dependency_first_dfs is a function of the node set and the edge set:
\* whatever the insertion order of the mapping and the iteration order of its
\* sets in this run, the sequence is the one obtained from the mapping stored
\* and iterated in sorted order.
C28_DfsDeterministic ==
    pc = "dfs" =>
        dfs_order = dependency_first_dfs(SortedForm(graph), SortedOrders(graph))

\* A run on a mapping not stored in sorted order, with a cycle to break and a
\* set of two dependencies to iterate.
C28_Witness ==
    /\ pc = "dfs"
    /\ graph.keys # sorted(KeySet(graph))
    /\ DepSets(graph) # {}
    /\ cycles # <<>>
    /\ Len(dfs_order) = MaxNodes

C30_KahnCompleteWithoutSelfLoops ==
    (pc = "sorted" /\ NoSelfLoops(graph)) =>
        /\ emitted = Len(graph.keys)
        /\ Len(topo_order) = emitted

\* topological_sort has run on a graph without self-loops that had a cycle and
\* that has an edge to a node that is not a key.
C30_Witness ==
    /\ pc = "sorted"
    /\ NoSelfLoops(graph)
    /\ cycles # <<>>
    /\ ~TargetsAreKeys(graph)
    /\ emitted = Len(graph.keys)
    /\ topo_order # <<>>

----------------------------------------------------------------------------
(* Properties of the abstraction rules and of pass 3 *)

\* components[id].depends_on
DependsOn(components, h, id) == h[RefOf(components, id)].depends_on

TableIds == Range(all_components.keys)

RulesHaveRun == pc \in {"returned", "abstracted", "reapplied"}

\* C6: after apply_doc_dependency_rules no component depends on its own id.
C6_NoSelfDependency ==
    RulesHaveRun =>
        \A id \in TableIds : id \notin DependsOn(all_components, heap, id)

C6_Witness ==
    /\ pc \in {"returned", "abstracted"}
    /\ \E id \in TableIds :
        /\ id \in DependsOn(all_components, rules_input, id)
        /\ TypeOf(all_components, heap, id) = "function"
    /\ \E id \in TableIds :
        /\ id \in DependsOn(all_components, rules_input, id)
        /\ TypeOf(all_components, heap, id) = "method"

\* C7: after parse returns, every class depends on each method of the table
\* whose id starts with the class id and a dot and does not end in .__init__.
C7_ContainmentSurvives ==
    pc = "returned" =>
        \A c \in TableIds : TypeOf(all_components, heap, c) = "class" =>
            \A m \in TableIds :
                (/\ TypeOf(all_components, heap, m) = "method"
                 /\ StartsWithDot(m, c)
                 /\ ~EndsWithInit(m))
                    => m \in DependsOn(all_components, heap, c)

C7_Witness ==
    /\ pc = "returned"
    /\ <<"A", "Foo", "bar">> \in DependsOn(all_components, heap, <<"A", "Foo">>)
    /\ <<"A", "Foo", "__init__">> \notin DependsOn(all_components, heap, <<"A", "Foo">>)
    /\ <<"B", "Bar">> \in DependsOn(all_components, heap, <<"A", "Foo">>)
    /\ <<"B", "Bar", "m">> \in DependsOn(all_components, rules_input, <<"A", "Foo">>)

\* C8: applying apply_doc_dependency_rules to its own result changes no
\* depends_on set.
C8_RulesIdempotent ==
    RulesHaveRun =>
        \A id \in TableIds :
            DependsOn(all_components, apply_doc_dependency_rules(all_components, heap), id)
                = DependsOn(all_components, heap, id)

\* C20: after apply_doc_dependency_rules no method depends on its own enclosing
\* class, the id left when the last segment of the method's id is dropped.
C20_NoOwnClassDependency ==
    RulesHaveRun =>
        \A id \in TableIds :
            (TypeOf(all_components, heap, id) = "method" /\ Len(id) >= 2)
                => Owner(id) \notin DependsOn(all_components, heap, id)

----------------------------------------------------------------------------
(* Properties of the pipeline on the two-file scenario *)

\* The run is on a repository holding A.py and B.py and has sorted its graph.
ScenarioSorted ==
    /\ pc = "sorted"
    /\ {files[i].name : i \in 1..Len(files)} \cap {<<"A">>, <<"B">>, <<"M">>}
          = {<<"A">>, <<"B">>}

\* C9: in the two-file scenario the final table has A.Foo.bar depending on
\* A.Foo.baz, A.Foo depending on A.Foo.bar and A.Foo.baz, B.use_foo depending
\* on A.Foo and not on A.Foo.bar, and topological_sort places A.Foo.baz before
\* A.Foo.bar before A.Foo before B.use_foo.
C9_TwoFileScenario ==
    ScenarioSorted =>
        /\ <<"A", "Foo", "baz">> \in DependsOn(all_components, heap, <<"A", "Foo", "bar">>)
        /\ {<<"A", "Foo", "bar">>, <<"A", "Foo", "baz">>}
              \subseteq DependsOn(all_components, heap, <<"A", "Foo">>)
        /\ <<"A", "Foo">> \in DependsOn(all_components, heap, <<"B", "use_foo">>)
        /\ <<"A", "Foo", "bar">> \notin DependsOn(all_components, heap, <<"B", "use_foo">>)
        /\ Before(topo_order, <<"A", "Foo", "baz">>, <<"A", "Foo", "bar">>)
        /\ Before(topo_order, <<"A", "Foo", "bar">>, <<"A", "Foo">>)
        /\ Before(topo_order, <<"A", "Foo">>, <<"B", "use_foo">>)


----------------------------------------------------------------------------
(* Properties of the pipeline *)

\* RepositoryParser.parse has returned its table.
ParseReturned ==
    /\ files # <<>>
    /\ pc \in {"returned", "graph", "detected", "resolved", "dfs", "sorted"}

\* C11: after parse returns, every id in a depends_on set of the returned
\* table is a key of the returned table.
C11_DependenciesAreKeys ==
    ParseReturned =>
        \A id \in TableIds : DependsOn(all_components, heap, id) \subseteq TableIds

\* parse has returned a table with an edge, from a file in which the resolver
\* met the name of a module-level variable, which is no key of the table.
C11_Witness ==
    /\ pc = "returned"
    /\ \E i \in 1..Len(parsed_files) : GlobalVariableTracker(parsed_files[i].tree) # {}
    /\ \A id \in TableIds : DependsOn(all_components, heap, id) \subseteq TableIds

\* The exceptions that reading, parsing or extracting one file raises.
FileFaults == {"OSError", "RecursionError"}

\* C12: a file whose parsing or extraction raises is skipped and the scan
\* goes on: the exception never ends parse.
C12_FailingFileSkipped == ~(pc = "raised" /\ error \in FileFaults)

\* C13: every component of the table carries the language tag of the adapter
\* that was selected for the file it comes from.
C13_LanguageOfAdapter ==
    \A r \in TableRefs(all_components) :
        r[1] <= Len(parsed_files) => heap[r].language = parsed_files[r[1]].adapter

\* The identifiers assigned at module level, directly or inside an
\* expression statement.
ModuleLevelNames(tree) ==
    LET Assigned(node) ==
            IF node.type = "assignment" /\ child_by_field_name(node, "left").type = "identifier"
            THEN {child_by_field_name(node, "left").text[1]}
            ELSE {}
    IN UNION {Assigned(tree.children[i]) \cup
              (IF tree.children[i].type = "expression_statement"
               THEN UNION {Assigned(tree.children[i].children[j]) :
                              j \in 1..Len(tree.children[i].children)}
               ELSE {}) : i \in 1..Len(tree.children)}

\* C14: for a Python file, extract_components returns a global_variable
\* component with id module_path.name for every identifier assigned at
\* module level.
C14_GlobalsExtracted ==
    \A i \in 1..Len(files) :
        (get_adapter_for_file(files[i]) = "python" /\ files[i].fault = "") =>
            \A name \in ModuleLevelNames(files[i].tree) :
                \E k \in 1..Len(extract_components(files[i].tree, files[i].name)) :
                    /\ extract_components(files[i].tree, files[i].name)[k].id
                          = files[i].name \o <<name>>
                    /\ extract_components(files[i].tree, files[i].name)[k].type
                          = "global_variable"

\* Every file an adapter takes has been extracted and merged into the table.
AllSupportedMerged ==
    /\ Len(parsed_files)
          = Cardinality({i \in 1..Len(files) : get_adapter_for_file(files[i]) # ""})
    /\ \A n \in 1..Len(parsed_files) : Range(parsed_files[n].keys) \subseteq TableIds

\* C15: pass 2 starts only when every supported file has been extracted and
\* merged, and from then on no step of parse inserts or removes a table
\* entry: every resolver call sees the key set of the table finally returned.
C15_TableFrozenAfterPass1 ==
    [][/\ pc' = "pass2" => AllSupportedMerged'
       /\ pc \in {"pass2", "pass3", "rules"} => all_components' = all_components]_vars

\* The resolver has been called in a repository of two parsed files.
C15_Witness ==
    /\ pc = "pass2"
    /\ cursor > 1
    /\ Len(parsed_files) >= 2

\* The parsed files that yielded a component with this id.
FilesYielding(id) == {n \in 1..Len(parsed_files) : id \in Range(parsed_files[n].keys)}

\* C16: every id extracted from any file is a key of the table, and the table
\* maps it to the component of the file processed last among those that
\* yielded it; a second file yielding a known id raises no error.
C16_LastWriteWins ==
    \A n \in 1..Len(parsed_files) : \A id \in Range(parsed_files[n].keys) :
        /\ InTable(all_components, id)
        /\ \A m \in FilesYielding(id) : m <= all_components.file[id]
        /\ all_components.file[id] \in FilesYielding(id)
        /\ Cardinality(FilesYielding(id)) >= 2 => error = ""

\* parse has returned the table of a repository in which two files yielded
\* the same id, and another id came from the first of them only.
C16_Witness ==
    /\ pc = "returned"
    /\ \E id \in TableIds : FilesYielding(id) = {1, 2}
    /\ \E id \in TableIds : FilesYielding(id) = {1}

-----------------------------------------------------------------------------
(* Properties of the serialisation *)

\* C17: for every component c, from_dict(c.to_dict()) has the id, the type and
\* the depends_on set of c, in whatever order to_dict listed the dependencies.
C17_RoundTrip ==
    pc = "loaded" =>
        /\ loaded.id = IrComponent.id
        /\ loaded.type = IrComponent.type
        /\ loaded.depends_on = IrComponent.depends_on

\* A round trip of a component with two dependencies that to_dict listed in
\* descending order of their names.
C17_Witness ==
    /\ pc = "loaded"
    /\ Cardinality(IrComponent.depends_on) = 2
    /\ Len(exported.depends_on) = 2
    /\ IdLess(exported.depends_on[2], exported.depends_on[1])
    /\ loaded.depends_on = IrComponent.depends_on

----------------------------------------------------------------------------
(* Properties of the abstraction rules and of the graph of the final table *)

\* The class a component belongs to: a class itself, the owner of a method,
\* <<>> for a function.
OwnClass(id) ==
    IF TypeOf(all_components, heap, id) = "class" THEN id
    ELSE IF TypeOf(all_components, heap, id) = "method" THEN Owner(id)
    ELSE <<>>

\* The id names a member of a class of the table.
IsClassMember(dep) ==
    /\ Len(dep) >= 2
    /\ InTable(all_components, Owner(dep))
    /\ TypeOf(all_components, heap, Owner(dep)) = "class"

AbstractedComponents ==
    {id \in TableIds : TypeOf(all_components, heap, id) \in {"class", "method", "function"}}

\* After the rules no component depends on a member of a class other than its
\* own, and each such dependency of the input has given way to its owner.
MethodsCollapsedToOwner ==
    \A id \in AbstractedComponents :
        /\ \A dep \in DependsOn(all_components, heap, id) :
               IsClassMember(dep) => Owner(dep) = OwnClass(id)
        /\ \A dep \in DependsOn(all_components, rules_input, id) :
               (IsClassMember(dep) /\ Owner(dep) # OwnClass(id))
                   => Owner(dep) \in DependsOn(all_components, heap, id)

\* C24: after apply_doc_dependency_rules no class, method or function depends
\* on a method of a class other than its own, each such dependency having been
\* replaced by the id of that class; a dependency that is not a member of a
\* class is kept, unless it is the component's own id or, for a method, the id
\* of its own class.
C24_CollapseAndKeep ==
    pc \in {"returned", "abstracted"} =>
        /\ MethodsCollapsedToOwner
        /\ \A id \in AbstractedComponents :
             \A dep \in DependsOn(all_components, rules_input, id) :
                 (~IsClassMember(dep) /\ dep # id /\ dep # OwnClass(id))
                     => dep \in DependsOn(all_components, heap, id)

\* C24 as stated: every dependency that is not a member of a class is kept.
C24_AsStated ==
    pc \in {"returned", "abstracted"} =>
        /\ MethodsCollapsedToOwner
        /\ \A id \in AbstractedComponents :
             \A dep \in DependsOn(all_components, rules_input, id) :
                 ~IsClassMember(dep) => dep \in DependsOn(all_components, heap, id)

\* The rules have replaced a method of Bar by Bar in the dependencies of a
\* method of Foo and kept the module-level function next to it.
C24_Witness ==
    /\ pc \in {"returned", "abstracted"}
    /\ DependsOn(all_components, rules_input, <<"A", "Foo", "bar">>)
          = {<<"B", "Bar", "m">>, <<"A", "helper">>}
    /\ DependsOn(all_components, heap, <<"A", "Foo", "bar">>)
          = {<<"B", "Bar">>, <<"A", "helper">>}

\* C23: for every class C and every method C.m of the final table other than
\* the initializer, the edge C->C.m is an edge of the cycle-resolved graph of
\* the table, and C.m comes before C in topological_sort and in
\* dependency_first_dfs.
C23_ContainmentEdgeKept ==
    (files # <<>> /\ pc = "sorted") =>
        \A c, m \in TableIds :
            (/\ TypeOf(all_components, heap, c) = "class"
             /\ TypeOf(all_components, heap, m) = "method"
             /\ StartsWithDot(m, c)
             /\ ~EndsWithInit(m))
                => /\ m \in GraphGet(resolved, c)
                   /\ Before(topo_order, m, c)
                   /\ Before(dfs_order, m, c)

----------------------------------------------------------------------------
(* Properties of the resolvers *)

\* Pass 1 is over: the table holds the components of every parsed file.
TableComplete == files # <<>> /\ pc \in {"pass2", "pass3", "rules", "returned"}

\* The components of the parsed files that the given adapter extracted.
ComponentsOf(adapter) ==
    {r \in DOMAIN heap : r[1] <= Len(parsed_files) /\ parsed_files[r[1]].adapter = adapter}

\* The names n of the calls self.n() in the subtree of node.
RECURSIVE SelfCallNames(_)
SelfCallNames(node) ==
    LET fn == child_by_field_name(node, "function")
        here == IF /\ node.type = "call"
                   /\ fn.type = "attribute"
                   /\ child_by_field_name(fn, "object") = Ident("self", "object")
                THEN {child_by_field_name(fn, "attribute").text[1]}
                ELSE {}
    IN here \cup UNION {SelfCallNames(node.children[k]) : k \in 1..Len(node.children)}

\* C21: for a method of class C whose body calls self.n(), the Python resolver
\* returns the id C.n whenever that id is a key of the table.
C21_SelfCallResolved ==
    TableComplete =>
        \A r \in ComponentsOf("python") :
            LET tree == parsed_files[r[1]].tree
            IN heap[r].type = "method" =>
                 \A n \in SelfCallNames(find_component_node(heap[r], tree, "")) :
                     InTable(all_components, Owner(r[2]) \o <<n>>)
                        => Owner(r[2]) \o <<n>>
                              \in resolve_dependencies(heap[r], tree, all_components)

\* The names the subtree of node refers to: the texts of its identifiers other
\* than the name of a definition or of a keyword argument, the attribute of an
\* attribute access and the target of an assignment.
RECURSIVE ReferencedNames(_)
ReferencedNames(node) ==
    (IF node.type = "identifier" /\ node.field \notin {"name", "attribute", "left"}
     THEN {node.text[1]} ELSE {})
        \cup UNION {ReferencedNames(node.children[k]) : k \in 1..Len(node.children)}

\* C22: a built-in name, an excluded receiver name or a locally bound name never
\* contributes a dependency, in any position: a Python function or method whose
\* body refers to no other names than built-ins, self, cls and its own
\* parameters has no dependencies.
C22_IgnoredNamesNeverResolved ==
    TableComplete =>
        \A r \in ComponentsOf("python") :
            LET tree == parsed_files[r[1]].tree
                node == find_component_node(heap[r], tree, "")
            IN (/\ heap[r].type \in {"function", "method"}
                /\ node # NoNode
                /\ ReferencedNames(node) \subseteq
                      BUILTIN_TYPES \cup EXCLUDED_NAMES \cup parameter_names(heap[r], node))
                  => resolve_dependencies(heap[r], tree, all_components) = {}

\* The texts of the nodes in the subtree of node: every name written there.
RECURSIVE NamesInside(_)
NamesInside(node) ==
    Range(node.text) \cup UNION {NamesInside(node.children[k]) : k \in 1..Len(node.children)}

\* The declaration of a JavaScript component in the subtree of node: the first
\* node of the component's kind that carries its name; NoNode when there is
\* none.
RECURSIVE JsNodeOf(_, _)
JsNodeOf(node, component) ==
    LET kind == IF component.type = "function" THEN "function_declaration"
                ELSE IF component.type = "class" THEN "class_declaration"
                ELSE "method_definition"
        found == {k \in 1..Len(node.children) :
                     JsNodeOf(node.children[k], component) # NoNode}
    IN IF node.type = kind
          /\ child_by_field_name(node, "name").text = <<LastName(component.id)>>
       THEN node
       ELSE IF found = {} THEN NoNode
       ELSE JsNodeOf(node.children[CHOOSE k \in found : \A j \in found : k <= j], component)

\* The syntax node of a component in the tree of its file.
OwnNode(adapter, component, tree) ==
    IF adapter = "python" THEN find_component_node(component, tree, "")
    ELSE JsNodeOf(tree, component)

\* C27: for every adapter, what resolve_dependencies returns for a component
\* comes from references inside the component's own syntax node: every id it
\* returns is named inside that node, so a call or constructor expression
\* elsewhere in the file contributes nothing.
C27_OnlyOwnNodeReferences ==
    TableComplete =>
        \A r \in {x \in DOMAIN heap : x[1] <= Len(parsed_files)} :
            LET adapter == parsed_files[r[1]].adapter
                tree == parsed_files[r[1]].tree
            IN \A dep \in adapter_resolve(adapter, heap[r], tree, all_components, heap) :
                   LastName(dep) \in NamesInside(OwnNode(adapter, heap[r], tree))

\* The heap as pass 1 left it: every depends_on empty.
FreshHeap == [r \in DOMAIN heap |-> [heap[r] EXCEPT !.depends_on = {}]]

\* C26: in whatever order and interleaving the calls of pass 2 run, a step of
\* pass 2 leaves the table alone and writes at most the depends_on of the one
\* component whose call is being completed, which only grows; and when the last
\* call is completed every depends_on is what the calls give when run one after
\* the other in the order of the code.
C26_Pass2OrderIndependent ==
    [][(pc = "pass2") =>
          (/\ all_components' = all_components
           /\ Cardinality({r \in DOMAIN heap : heap'[r] # heap[r]}) <= 1
           /\ \A r \in DOMAIN heap :
                /\ [heap'[r] EXCEPT !.depends_on = heap[r].depends_on] = heap[r]
                /\ HasSetDependsOn(heap[r]) => heap[r].depends_on \subseteq heap'[r].depends_on
                /\ heap'[r] # heap[r] => (r \in DOMAIN calls /\ ~calls[r].done)
           /\ (pc' = "pass3") =>
                 heap' = pass2(parsed_files, all_components, FreshHeap,
                               Pass2Work(parsed_files, 1)))]_vars

\* A component has been resolved to a non-empty set while a component that the
\* code visits before it has not been taken yet.
C26_Witness ==
    /\ pc = "pass2"
    /\ \E i, j \in 1..Len(Pass2Work(parsed_files, 1)) :
         LET work == Pass2Work(parsed_files, 1)
         IN /\ i < j
            /\ work[i] \notin DOMAIN calls
            /\ work[j] \in DOMAIN calls
            /\ calls[work[j]].done
            /\ heap[work[j]].depends_on # {}

====
